---- MODULE Spec2Model ----
(***************************************************************************)
(* A model of the clash-royale-analytics data scraper and of the cached    *)
(* read path of its web API.                                               *)
(*                                                                         *)
(* The scraper (backend/data_scraper/src/main.py) runs one asyncio event   *)
(* loop: main() loads the tracked players, run_players_cycle() starts one  *)
(* process_player() task per player inside an asyncio.TaskGroup, every     *)
(* task passes the shared ApiRateLimiter before it calls the Clash Royale  *)
(* API, and after the group main() counts the battles, writes the card     *)
(* catalogue one cache version ahead and increments the cache version.     *)
(*                                                                         *)
(* Every action is one step of one coroutine between two suspension        *)
(* points (await), which is the atomicity asyncio gives.                   *)
(*                                                                         *)
(* Time.  The limiter and the back-off only ever use differences to        *)
(* loop.time(), so the model keeps every time value relative to the        *)
(* current instant: "now" is 0, nextAt is max(_next_at - now, 0), timer[p] *)
(* is the time left of p's asyncio.sleep, and Tick lets one second pass.   *)
(***************************************************************************)
EXTENDS Integers, Sequences, FiniteSets, TLC

\* ------------------------------------------------------------------ bounds
NumPlayers == 3      \* player tags that can be tracked
MaxTasks == 2        \* the tracked players of a cycle, outside SpecGroup
GroupFetches == 3    \* SpecGroup: a task meets a transient error on fewer requests
MaxFetches == 7      \* the per-task count of upstream requests saturates here
MaxVersion == 2      \* a cycle starts only while the cache version is at most this

\* ------------------------------------------------------- program constants
MAX_RETRIES == 5     \* settings.MAX_RETRIES
BASE_BACKOFF == 1    \* settings.BASE_BACKOFF, seconds
Interval == 2        \* ApiRateLimiter.interval = 1.0 / REQUESTS_PER_SECOND (0.5)

Tags == 1..NumPlayers
TrackedTags == 1..MaxTasks   \* the tags that are tracked outside SpecGroup
NoTask == 0

Pow2(n) == IF n <= 0 THEN 1
           ELSE IF n = 1 THEN 2
           ELSE IF n = 2 THEN 4
           ELSE IF n = 3 THEN 8
           ELSE IF n = 4 THEN 16
           ELSE 32

\* ------------------------------------------------------------ the upstream
\* What the Clash Royale API can answer to GET /players/{tag}/battlelog.  A
\* body is described by what the scraper can tell about it:
\*   battles      a non-empty list whose first element is a well-formed match
\*                and whose matches can all be cleaned
\*   uncleanable  a non-empty list whose first element is a well-formed match
\*                and on which clean_battle_log_list or get_player_name
\*                raises (a later match without battleTime, a participant
\*                without supportCards, a duel whose opponent has no rounds)
\*   empty        []
\*   unusable     a non-empty list whose first element is a dict that fails
\*                validate_battle_log_content (a required field is missing)
\*   not_dicts    a non-empty list whose first element is no dict, as [1]
\*   not_list     a non-empty value that is no list, as {"reason": "x"}
\*   maintenance  the sentinel [{"reason": "inMaintenance"}]
\*   not_json     a body resp.json() cannot decode
StatusCodes == {200, 400, 403, 404, 429, 500, 502, 503, 504}
OkBodies ==
    {"battles", "uncleanable", "empty", "unusable", "not_dicts", "not_list",
     "maintenance", "not_json"}

Upstream ==
    [kind : {"response"}, status : {200}, body : OkBodies]
    \cup [kind : {"response"}, status : StatusCodes \ {200}, body : {"error"}]
    \cup [kind : {"network_error"}, status : {0}, body : {"none"}]

\* The httpx.Response object itself: not a list.
ResponseObject(up) == [type |-> "Response", len |-> 0, reason |-> "none"]

\* ClashRoyaleAPI._check_maintenance: TRUE when it raises.
CheckMaintenance(response) ==
    /\ response.type = "list"
    /\ response.len > 0
    /\ response.reason = "inMaintenance"

\* The result of a call of the API client: a returned body or a raised exception.
Returned(body) == [exc |-> "none", code |-> 0, body |-> body]
Raised(exc, code) == [exc |-> exc, code |-> code, body |-> "none"]

\* ClashRoyaleAPI._request: the client's get, raise_for_status, the maintenance
\* check (handed the response object `resp`), then resp.json().
Request(up) ==
    IF up.kind = "network_error" THEN Raised("RequestError", 0)
    ELSE IF up.status >= 400 THEN Raised("HTTPStatusError", up.status)
    ELSE IF CheckMaintenance(ResponseObject(up))
         THEN Raised("ClashRoyaleMaintenanceError", 503)
    ELSE IF up.body = "not_json" THEN Raised("JSONDecodeError", 0)
    ELSE Returned(up.body)

\* ClashRoyaleAPI.get_player_battle_logs (tracked tags have a valid syntax).
GetPlayerBattleLogs(up) == Request(up)

\* What an API client may do according to what process_player is written
\* against: everything the real client does, and the maintenance error.
ContractOutcomes ==
    {Request(up) : up \in Upstream} \cup {Raised("ClashRoyaleMaintenanceError", 503)}

\* clean.validate_battle_log_structure, on the body classes above: a value
\* that is empty, no list, or a list whose first element is no dict is
\* refused.
ValidateBattleLogStructure(body) ==
    body \in {"battles", "uncleanable", "unusable", "maintenance"}

\* clean.validate_battle_log_content on a body of that structure: the first
\* match has the required fields and participants with a list of cards.
ValidateBattleLogContent(body) == body \in {"battles", "uncleanable"}

\* clean_battle_log_list and get_player_name on a validated body: TRUE when
\* one of them raises.
PrepareRaises(body) == body = "uncleanable"

\* ------------------------------------------------------------- the cache
\* The versioned key scheme: build_redis_key(conn, service, resource, params,
\* version_ahead) reads the global version and puts it, or the next one, in
\* front of the key.  A key is modelled by its version and its resource;
\* version 0 is a key without a version.  The resources: the card catalogue
\* (cache_cards writes it under crApi/allCards one version ahead, get_cards
\* reads and writes it under the fixed key cr_api:all_cards) and the deck
\* statistics of a player (deck_percentage_stats, under versioned keys).
Resources == {"allCards", "playerDecks"}
CacheKeys == [ver : 0..(MaxVersion + 1), res : Resources]
NoEntry == 0
NoKey == [ver |-> 0, res |-> "none"]

\* redis_service.build_redis_key as get_cards calls it: service and resource
\* joined, without a version and without a read of the cache.
BuildRedisKeyUnversioned(resource) == [ver |-> 0, res |-> resource]

BuildRedisKey(ver, resource, versionAhead) ==
    [ver |-> IF versionAhead THEN ver + 1 ELSE ver, res |-> resource]

\* RedisConn.increment_version: the atomic increment of the global version.
IncrementedVersion(ver) == ver + 1

\* cache_cards writing under the current version, for C6's sensitivity to
\* the version-ahead write.
CacheCardsVersionCurrent == FALSE

\* cache_cards asks for the key one version ahead.
CacheCardsVersionAhead == TRUE

\* ---------------------------------------------------------------- the state
VARIABLES
    mainPc,        \* where main() is
    players,       \* main()'s `players` of the current cycle
    tpc,           \* where each process_player task is
    tres,          \* how each task ended ("" while it runs)
    attempt,       \* process_player's local `attempt`
    timer,         \* time left of the asyncio.sleep a task is in
    lockHolder,    \* the task inside ApiRateLimiter._lock, or NoTask
    waiters,       \* the tasks queued on ApiRateLimiter._lock, in order
    nextAt,        \* ApiRateLimiter._next_at, relative to now
    groupErrors,   \* the exceptions the TaskGroup collected
    abortPending,  \* a task failed and the group has not yet run its abort
    gapReady,      \* siblings whose next step was already scheduled then
    gapEntries,    \* history: steps inside `async with api_rl` between a failure and the abort
    aborted,       \* the group cancelled its tasks in this cycle
    dispatched,    \* history: upstream requests of each task in this cycle
    allTransient,  \* history: every answer the task got was a transient error
    sentinel,      \* history: the task's last answer was the maintenance sentinel
    refused,       \* history: the task's last answer was an HTTP 403 or 404
    maint,         \* history: a task raised the maintenance error in this cycle
    lateDispatch,  \* history: requests dispatched after that in this cycle (saturating)
    sinceAcq,      \* history: time since the last return of __aenter__ (saturating)
    acqGap,        \* history: time between the last two returns (saturating)
    battles,       \* the players whose battles the battles collection holds
    names,         \* the players whose playerName was set
    version,       \* the global cache version (a Redis counter)
    cache,         \* the cache: key -> the version its writer wrote it for, or NoEntry
    ckey,          \* cache_cards' local `key`
    aheadWritten,  \* history: cache_cards' entry for the next version is in the cache
    curLive,       \* history: that entry, after the increment, is in the cache
    rpc,           \* where the read request is
    rres,          \* the resource the request reads
    rkey,          \* the request's local `key`
    rver,          \* history: the global version when the request built its key
    resp,          \* the request's response ("" while it runs)
    readFailed,    \* history: the request's cache read failed
    rhit,          \* history: the entry the request's cache read returned, or NoEntry
    incrs,         \* history: increments of the version in this cycle (saturating)
    cardsTried,    \* history: cache_cards was called in this cycle
    activeAtLoad,  \* history: the tags with active = true when the cycle loaded them
    failedLoad,    \* history: the last load of the players raised, no sleep since
    fnPc,          \* a function under examination: "idle", "call" or "done"
    fnIn,          \* its arguments
    fnOut          \* what it returned or raised

taskVars == <<tpc, tres, attempt, timer>>
limiterVars == <<lockHolder, waiters, nextAt>>
groupVars == <<groupErrors, abortPending, gapReady, gapEntries, aborted>>
histVars == <<dispatched, allTransient, sentinel, refused, maint, lateDispatch, sinceAcq,
             acqGap>>
storeVars == <<battles, names>>
readerVars == <<rpc, rres, rkey, rver, resp, readFailed, rhit>>
cacheVars == <<version, cache, ckey, aheadWritten, curLive, readerVars>>
cycleVars == <<incrs, cardsTried, activeAtLoad, failedLoad>>
progVars == <<mainPc, players, taskVars, limiterVars, groupVars, histVars, storeVars,
              cacheVars, cycleVars>>
fnVars == <<fnPc, fnIn, fnOut>>
vars == <<progVars, fnVars>>

Terminal == {"none", "returned", "raised", "cancelled"}

InitProgram ==
    /\ mainPc = "load"
    /\ players = {}
    /\ tpc = [p \in Tags |-> "none"]
    /\ tres = [p \in Tags |-> ""]
    /\ attempt = [p \in Tags |-> 0]
    /\ timer = [p \in Tags |-> 0]
    /\ lockHolder = NoTask
    /\ waiters = <<>>
    /\ nextAt = 0
    /\ groupErrors = {}
    /\ abortPending = FALSE
    /\ gapReady = {}
    /\ gapEntries = 0
    /\ aborted = FALSE
    /\ dispatched = [p \in Tags |-> 0]
    /\ allTransient = [p \in Tags |-> TRUE]
    /\ sentinel = [p \in Tags |-> FALSE]
    /\ refused = [p \in Tags |-> FALSE]
    /\ maint = FALSE
    /\ lateDispatch = 0
    /\ sinceAcq = Interval
    /\ acqGap = Interval
    /\ battles = {}
    /\ names = {}
    /\ version = 1
    /\ cache = [k \in CacheKeys |-> NoEntry]
    /\ ckey = NoKey
    /\ aheadWritten = FALSE
    /\ curLive = FALSE
    /\ rpc = "idle"
    /\ rres = "allCards"
    /\ rkey = NoKey
    /\ rver = 0
    /\ resp = ""
    /\ readFailed = FALSE
    /\ rhit = NoEntry
    /\ incrs = 0
    /\ cardsTried = FALSE
    /\ activeAtLoad = {}
    /\ failedLoad = FALSE

\* The program before its first cycle; no function is under examination.
Init ==
    /\ InitProgram
    /\ fnPc = "idle"
    /\ fnIn = "none"
    /\ fnOut = "none"

\* ------------------------------------------------------------ process_player
RetryCodes == {429, 500, 502, 503, 504}
NoRetryCodes == {403, 404}

\* The back-off of a retry: settings.BASE_BACKOFF * (2**attempt).
Backoff(att) == BASE_BACKOFF * Pow2(att)

\* process_player's `attempt` after a retry was decided.  The loop never
\* assigns `attempt` again after `attempt = 0`.
AttemptAfterRetry(att) == att

\* A process_player that lets a storage error leave the task, for C10's
\* sensitivity to the `except Exception` arm.
ProcessStorageErrorRaise == [next |-> "raised", res |-> "PyMongoError"]

\* The `except Exception` arm: what process_player does when the cleaning,
\* get_player_name, insert_battles or set_player_name raised (the two storage
\* functions re-raise what the driver raised).
ProcessStorageError == [next |-> "returned", res |-> "unknown_error"]

\* A process_player whose retry arm takes the 403 and the 404 too, for C28's
\* sensitivity to the `code in (403, 404)` arm.
ProcessOutcomeRetryRefused(o, att) ==
    IF o.exc = "none" THEN
        IF o.body = "empty" THEN [next |-> "returned", res |-> "no_logs"]
        ELSE IF ~ValidateBattleLogStructure(o.body) \/ ~ValidateBattleLogContent(o.body)
             THEN [next |-> "returned", res |-> "unusable"]
        ELSE IF PrepareRaises(o.body) THEN ProcessStorageError
        ELSE [next |-> "insert", res |-> ""]
    ELSE IF o.exc = "ClashRoyaleMaintenanceError"
         THEN [next |-> "raised", res |-> "ClashRoyaleMaintenanceError"]
    ELSE IF o.exc = "HTTPStatusError" THEN
        IF o.code \in RetryCodes \cup NoRetryCodes /\ att < MAX_RETRIES
        THEN [next |-> "backoff", res |-> ""]
        ELSE [next |-> "returned", res |-> "http_error"]
    ELSE IF o.exc = "RequestError" THEN
        IF att < MAX_RETRIES THEN [next |-> "backoff", res |-> ""]
        ELSE [next |-> "returned", res |-> "network_error"]
    ELSE [next |-> "returned", res |-> "unknown_error"]

\* What process_player does with the result of get_player_battle_logs, with
\* `attempt` at att: clean the log and go on to insert_battles, return (with
\* the line it logs), sleep the back-off and try again, or raise.
ProcessOutcome(o, att) ==
    IF o.exc = "none" THEN
        IF o.body = "empty" THEN [next |-> "returned", res |-> "no_logs"]
        ELSE IF ~ValidateBattleLogStructure(o.body) \/ ~ValidateBattleLogContent(o.body)
             THEN [next |-> "returned", res |-> "unusable"]
        ELSE IF PrepareRaises(o.body) THEN ProcessStorageError
        ELSE [next |-> "insert", res |-> ""]
    ELSE IF o.exc = "ClashRoyaleMaintenanceError"
         THEN [next |-> "raised", res |-> "ClashRoyaleMaintenanceError"]
    ELSE IF o.exc = "HTTPStatusError" THEN
        IF o.code \in NoRetryCodes THEN [next |-> "returned", res |-> "http_no_retry"]
        ELSE IF o.code \in RetryCodes /\ att < MAX_RETRIES
             THEN [next |-> "backoff", res |-> ""]
        ELSE [next |-> "returned", res |-> "http_error"]
    ELSE IF o.exc = "RequestError" THEN
        IF att < MAX_RETRIES THEN [next |-> "backoff", res |-> ""]
        ELSE [next |-> "returned", res |-> "network_error"]
    ELSE [next |-> "returned", res |-> "unknown_error"]

\* mongo.insert_battles on the driver's result: TRUE when it raises.  A bulk
\* write error holding a duplicate key error is logged and swallowed.
InsertBattlesRaises(db) == db \notin {"ok", "duplicate"}

\* insert_many(ordered=False) stored a document of the batch.
InsertStored(db) == db \in {"ok", "partial_error"}

IsTransient(o) ==
    \/ o.exc = "HTTPStatusError" /\ o.code \in RetryCodes
    \/ o.exc = "RequestError"

\* --------------------------------------------------------- ApiRateLimiter
\* A limiter that reserves no interval, for C5's sensitivity to the reservation.
NextSlotNow(now) == now

\* `self._next_at = now + self.interval`, with now the time just read.
NextSlot(now) == now + Interval

\* A task whose next step the event loop has already scheduled, or may have:
\* its sleep is over, its lock was handed over, or its I/O may have completed.
Ready(q) ==
    \/ tpc[q] \in {"http", "insert", "set_name"}
    \/ tpc[q] \in {"rl_sleep", "backoff"} /\ timer[q] = 0
    \/ tpc[q] = "lock_wait" /\ lockHolder = NoTask /\ waiters # <<>> /\ Head(waiters) = q

\* Every task's first step runs before the loop polls for I/O or timers.
NoneStarting == \A q \in Tags : tpc[q] # "start"

\* A task may run when the group is not about to abort, or when its step was
\* scheduled before the failure that makes the group abort.
CanRun(p) == ~abortPending \/ p \in gapReady

\* An __aenter__ that returns with the lock still held, for C21's sensitivity
\* to the release at the end of `async with self._lock`.
DispatchKeepsLock(p) ==
    /\ tpc' = [tpc EXCEPT ![p] = "http"]
    /\ nextAt' = NextSlot(0)
    /\ lockHolder' = p
    /\ dispatched' = [dispatched EXCEPT ![p] = IF @ < MaxFetches THEN @ + 1 ELSE @]
    /\ lateDispatch' = IF maint /\ lateDispatch < MaxFetches THEN lateDispatch + 1
                       ELSE lateDispatch
    /\ sinceAcq' = 0
    /\ acqGap' = sinceAcq

\* The return of __aenter__ and the call of get_player_battle_logs behind it:
\* the request goes out.
Dispatch(p) ==
    /\ tpc' = [tpc EXCEPT ![p] = "http"]
    /\ nextAt' = NextSlot(0)
    /\ lockHolder' = NoTask
    /\ dispatched' = [dispatched EXCEPT ![p] = IF @ < MaxFetches THEN @ + 1 ELSE @]
    /\ lateDispatch' = IF maint /\ lateDispatch < MaxFetches THEN lateDispatch + 1
                       ELSE lateDispatch
    /\ sinceAcq' = 0
    /\ acqGap' = sinceAcq

\* __aenter__ once the lock is held: sleep until _next_at, or go on at once.
Acquired(p) ==
    IF nextAt - 0 > 0
    THEN /\ tpc' = [tpc EXCEPT ![p] = "rl_sleep"]
         /\ timer' = [timer EXCEPT ![p] = nextAt - 0]
         /\ lockHolder' = p
         /\ UNCHANGED <<nextAt, dispatched, lateDispatch, sinceAcq, acqGap>>
    ELSE /\ Dispatch(p)
         /\ UNCHANGED timer

\* `async with api_rl`: take the lock if it is free and nobody queues for it,
\* else queue.
EnterLimiter(p) ==
    IF lockHolder = NoTask /\ waiters = <<>>
    THEN /\ Acquired(p)
         /\ UNCHANGED waiters
    ELSE /\ tpc' = [tpc EXCEPT ![p] = "lock_wait"]
         /\ waiters' = Append(waiters, p)
         /\ UNCHANGED <<timer, lockHolder, nextAt, dispatched, lateDispatch,
                        sinceAcq, acqGap>>

\* A step of a task: when the group is about to abort, it is one of the
\* steps that were scheduled before.
GapStep(p) == gapReady' = gapReady \ {p}

\* A step of a task inside `async with api_rl`.
GapLimiterStep(p) ==
    /\ GapStep(p)
    /\ gapEntries' = IF abortPending THEN gapEntries + 1 ELSE gapEntries

\* The first step of a task: process_player up to its first suspension.
TaskStart(p) ==
    /\ tpc[p] = "start"
    /\ CanRun(p)
    /\ EnterLimiter(p)
    /\ GapLimiterStep(p)
    /\ UNCHANGED <<mainPc, players, tres, attempt, groupErrors, abortPending, aborted,
                   allTransient, sentinel, refused, maint, battles, names, cacheVars>>
    /\ UNCHANGED cycleVars
    /\ UNCHANGED fnVars

\* The lock is handed to the first task of the queue.
LockGranted(p) ==
    /\ tpc[p] = "lock_wait"
    /\ lockHolder = NoTask
    /\ waiters # <<>> /\ Head(waiters) = p
    /\ NoneStarting
    /\ CanRun(p)
    /\ waiters' = Tail(waiters)
    /\ Acquired(p)
    /\ GapLimiterStep(p)
    /\ UNCHANGED <<mainPc, players, tres, attempt, groupErrors, abortPending, aborted,
                   allTransient, sentinel, refused, maint, battles, names, cacheVars>>
    /\ UNCHANGED cycleVars
    /\ UNCHANGED fnVars

\* The limiter's sleep is over: reserve the next slot, release the lock, call.
LimiterWake(p) ==
    /\ tpc[p] = "rl_sleep"
    /\ timer[p] = 0
    /\ NoneStarting
    /\ CanRun(p)
    /\ Dispatch(p)
    /\ GapLimiterStep(p)
    /\ UNCHANGED <<mainPc, players, tres, attempt, timer, waiters, groupErrors,
                   abortPending, aborted, allTransient, sentinel, refused, maint, battles,
                   names, cacheVars>>
    /\ UNCHANGED cycleVars
    /\ UNCHANGED fnVars

\* A step of process_player that ends in do: the task goes on, returns, or
\* raises.  An exception that leaves process_player fails the task: the
\* TaskGroup notes it and will abort; the siblings whose step is already
\* scheduled run before that.
TaskStep(p, do) ==
    /\ tpc' = [tpc EXCEPT ![p] = do.next]
    /\ tres' = [tres EXCEPT ![p] = do.res]
    /\ IF do.next = "raised"
       THEN /\ groupErrors' = groupErrors \cup {do.res}
            /\ abortPending' = TRUE
            /\ maint' = (maint \/ do.res = "ClashRoyaleMaintenanceError")
            /\ gapReady' = IF abortPending THEN gapReady \ {p}
                           ELSE {q \in players \ {p} : Ready(q)}
       ELSE /\ GapStep(p)
            /\ UNCHANGED <<groupErrors, abortPending, maint>>
    /\ UNCHANGED gapEntries

\* get_player_battle_logs returned or raised o; isSentinel: the upstream's
\* answer was the maintenance sentinel.
FetchDone(p, o, isSentinel) ==
    LET do == ProcessOutcome(o, attempt[p]) IN
    /\ tpc[p] = "http"
    /\ NoneStarting
    /\ CanRun(p)
    /\ TaskStep(p, do)
    /\ attempt' = [attempt EXCEPT ![p] =
                      IF do.next = "backoff" THEN AttemptAfterRetry(@) ELSE @]
    /\ timer' = [timer EXCEPT ![p] =
                      IF do.next = "backoff" THEN Backoff(attempt[p]) ELSE @]
    /\ allTransient' = [allTransient EXCEPT ![p] = @ /\ IsTransient(o)]
    /\ sentinel' = [sentinel EXCEPT ![p] = isSentinel]
    /\ refused' = [refused EXCEPT ![p] =
                      (o.exc = "HTTPStatusError" /\ o.code \in {403, 404})]
    /\ UNCHANGED <<mainPc, players, limiterVars, aborted, dispatched, lateDispatch,
                   sinceAcq, acqGap, battles, names, cacheVars>>
    /\ UNCHANGED cycleVars
    /\ UNCHANGED fnVars

\* A retry that sends its request without `async with api_rl`, for C37's
\* sensitivity to the limiter around the retries.
BackoffWakeUnlimited(p) ==
    /\ tpc[p] = "backoff"
    /\ timer[p] = 0
    /\ NoneStarting
    /\ CanRun(p)
    /\ tpc' = [tpc EXCEPT ![p] = "http"]
    /\ dispatched' = [dispatched EXCEPT ![p] = IF @ < MaxFetches THEN @ + 1 ELSE @]
    /\ lateDispatch' = IF maint /\ lateDispatch < MaxFetches THEN lateDispatch + 1
                       ELSE lateDispatch
    /\ sinceAcq' = 0
    /\ acqGap' = sinceAcq
    /\ GapLimiterStep(p)
    /\ UNCHANGED <<mainPc, players, tres, attempt, timer, limiterVars, groupErrors,
                   abortPending, aborted, allTransient, sentinel, refused, maint, battles,
                   names, cacheVars>>
    /\ UNCHANGED cycleVars
    /\ UNCHANGED fnVars

\* The back-off sleep is over: `continue`, back to `async with api_rl`.
BackoffWake(p) ==
    /\ tpc[p] = "backoff"
    /\ timer[p] = 0
    /\ NoneStarting
    /\ CanRun(p)
    /\ EnterLimiter(p)
    /\ GapLimiterStep(p)
    /\ UNCHANGED <<mainPc, players, tres, attempt, groupErrors, abortPending, aborted,
                   allTransient, sentinel, refused, maint, battles, names, cacheVars>>
    /\ UNCHANGED cycleVars
    /\ UNCHANGED fnVars

\* insert_battles ended; db is what the driver did with the insert_many.
InsertDone(p, db) ==
    LET do == IF InsertBattlesRaises(db) THEN ProcessStorageError
              ELSE [next |-> "set_name", res |-> ""] IN
    /\ tpc[p] = "insert"
    /\ NoneStarting
    /\ CanRun(p)
    /\ TaskStep(p, do)
    /\ battles' = IF InsertStored(db) THEN battles \cup {p} ELSE battles
    /\ UNCHANGED <<mainPc, players, attempt, timer, limiterVars, aborted, dispatched,
                   allTransient, sentinel, refused, lateDispatch, sinceAcq, acqGap, names,
                   cacheVars>>
    /\ UNCHANGED cycleVars
    /\ UNCHANGED fnVars

\* set_player_name ended.
SetNameDone(p, db) ==
    LET do == IF db # "ok" THEN ProcessStorageError
              ELSE [next |-> "returned", res |-> "stored"] IN
    /\ tpc[p] = "set_name"
    /\ NoneStarting
    /\ CanRun(p)
    /\ TaskStep(p, do)
    /\ names' = IF db = "ok" THEN names \cup {p} ELSE names
    /\ UNCHANGED <<mainPc, players, attempt, timer, limiterVars, aborted, dispatched,
                   allTransient, sentinel, refused, lateDispatch, sinceAcq, acqGap, battles,
                   cacheVars>>
    /\ UNCHANGED cycleVars
    /\ UNCHANGED fnVars

\* ------------------------------------------------------------------ main()
\* The players collection: every tag has a document with active = true, a
\* document with active = false (a deactivated player), or no document.
PlayerCollections == [Tags -> {"active", "inactive", "absent"}]

\* A get_tracked_player_tags whose find has no filter, for C19's sensitivity
\* to {"active": True}.
GetTrackedPlayerTagsUnfiltered(coll) == {t \in Tags : coll[t] # "absent"}

\* mongo.get_tracked_player_tags: find({"active": True}), the tags as a set.
GetTrackedPlayerTags(coll) == {t \in Tags : coll[t] = "active"}

\* get_tracked_player_tags read the collection coll and returned, or raised.
\* When it raised main() is at the top of its loop again (`continue`).
\* With players, run_players_cycle creates one task per element of the set
\* and main() waits in the TaskGroup.
LoadPlayers(coll, ok) ==
    LET found == GetTrackedPlayerTags(coll) IN
    /\ mainPc = "load"
    /\ version <= MaxVersion
    /\ IF ~ok
       THEN /\ failedLoad' = TRUE
            /\ UNCHANGED <<mainPc, players, taskVars, limiterVars, groupVars, histVars,
                           storeVars, cacheVars, incrs, cardsTried, activeAtLoad>>
       ELSE IF found = {}
       THEN /\ mainPc' = "idle_sleep"
            /\ players' = {}
            /\ activeAtLoad' = {t \in Tags : coll[t] = "active"}
            /\ failedLoad' = FALSE
            /\ UNCHANGED <<taskVars, limiterVars, groupVars, histVars, storeVars,
                           cacheVars, incrs, cardsTried>>
       ELSE /\ mainPc' = "group"
            /\ players' = found
            /\ activeAtLoad' = {t \in Tags : coll[t] = "active"}
            /\ failedLoad' = FALSE
            /\ tpc' = [p \in Tags |-> IF p \in found THEN "start" ELSE "none"]
            /\ tres' = [p \in Tags |-> ""]
            /\ attempt' = [p \in Tags |-> 0]
            /\ timer' = [p \in Tags |-> 0]
            /\ groupErrors' = {}
            /\ abortPending' = FALSE
            /\ gapReady' = {}
            /\ gapEntries' = 0
            /\ aborted' = FALSE
            /\ dispatched' = [p \in Tags |-> 0]
            /\ allTransient' = [p \in Tags |-> TRUE]
            /\ sentinel' = [p \in Tags |-> FALSE]
            /\ refused' = [p \in Tags |-> FALSE]
            /\ maint' = FALSE
            /\ lateDispatch' = 0
            /\ incrs' = 0
            /\ cardsTried' = FALSE
            /\ UNCHANGED <<limiterVars, sinceAcq, acqGap, storeVars, cacheVars>>
    /\ UNCHANGED fnVars

\* The sleep of a cycle without players is over: `continue`, `players = set()`
\* at the top of the loop, and the load is awaited.
IdleSleepDone ==
    /\ mainPc = "idle_sleep"
    /\ mainPc' = "load"
    /\ players' = {}
    /\ UNCHANGED <<taskVars, limiterVars, groupVars, histVars, storeVars,
                   cacheVars>>
    /\ UNCHANGED cycleVars
    /\ UNCHANGED fnVars

\* TaskGroup._on_task_done after a task failed: the group cancels every task
\* that is not done.  A cancelled task leaves the limiter's lock and queue.
TaskGroupAbort ==
    /\ mainPc = "group"
    /\ abortPending
    /\ abortPending' = FALSE
    /\ gapReady' = {}
    /\ aborted' = TRUE
    /\ UNCHANGED gapEntries
    /\ tpc' = [p \in Tags |-> IF tpc[p] \in Terminal THEN tpc[p] ELSE "cancelled"]
    /\ tres' = [p \in Tags |-> IF tpc[p] \in Terminal THEN tres[p] ELSE "CancelledError"]
    /\ timer' = [p \in Tags |-> 0]
    /\ lockHolder' = NoTask
    /\ waiters' = <<>>
    /\ UNCHANGED <<mainPc, players, attempt, nextAt, groupErrors, histVars, storeVars,
                   cacheVars>>
    /\ UNCHANGED cycleVars
    /\ UNCHANGED fnVars

\* A run_players_cycle without the except* arm, for C4's sensitivity to it.
UnhandledAll(errors) == errors

\* What leaves `except* ClashRoyaleMaintenanceError` of run_players_cycle.
Unhandled(errors) == errors \ {"ClashRoyaleMaintenanceError"}

\* Every task is done: TaskGroup.__aexit__ returns or raises the group of the
\* tasks' exceptions, and run_players_cycle handles the maintenance errors.
\* The tasks and their locals are gone after it.  An exception group that is
\* not handled leaves main() and ends the process.
GroupDone ==
    /\ mainPc = "group"
    /\ ~abortPending
    /\ \A p \in players : tpc[p] \in Terminal
    /\ mainPc' = IF Unhandled(groupErrors) = {} THEN "count" ELSE "group_raised"
    /\ tpc' = [p \in Tags |-> "none"]
    /\ tres' = [p \in Tags |-> ""]
    /\ attempt' = [p \in Tags |-> 0]
    /\ groupErrors' = {}
    /\ aborted' = FALSE
    /\ dispatched' = [p \in Tags |-> 0]
    /\ allTransient' = [p \in Tags |-> TRUE]
    /\ sentinel' = [p \in Tags |-> FALSE]
    /\ refused' = [p \in Tags |-> FALSE]
    /\ lateDispatch' = 0
    /\ gapEntries' = 0
    /\ UNCHANGED <<players, timer, limiterVars, abortPending, gapReady, maint, sinceAcq,
                   acqGap, storeVars, cacheVars>>
    /\ UNCHANGED cycleVars
    /\ UNCHANGED fnVars

\* A main() that goes from the count to the increment, for C11's sensitivity
\* to the call of cache_cards.
MainAfterSkipCards(pc, ok) ==
    IF pc = "count" THEN (IF ok THEN "incr" ELSE "dead")
    ELSE IF pc = "incr" THEN (IF ok THEN "sleep" ELSE "dead")
    ELSE IF pc = "sleep" THEN "load"
    ELSE "incr"

\* Where main() is after the step it was in returned (ok) or raised: the body
\* of the loop after run_players_cycle.  cache_cards catches what its steps
\* raise and returns; get_battles_count and increment_version are awaited
\* outside any try.
MainAfter(pc, ok) ==
    IF pc = "count" THEN (IF ok THEN "cache_fetch" ELSE "dead")
    ELSE IF pc = "cache_fetch" THEN (IF ok THEN "cache_key" ELSE "incr")
    ELSE IF pc = "cache_key" THEN (IF ok THEN "cache_set" ELSE "incr")
    ELSE IF pc = "cache_set" THEN "incr"
    ELSE IF pc = "incr" THEN (IF ok THEN "sleep" ELSE "dead")
    ELSE "load"

\* get_battles_count returned or raised (it re-raises what the driver raised).
CountBattles(ok) ==
    /\ mainPc = "count"
    /\ mainPc' = MainAfter("count", ok)
    /\ UNCHANGED <<players, taskVars, limiterVars, groupVars, histVars, storeVars,
                   cacheVars>>
    /\ UNCHANGED cycleVars
    /\ UNCHANGED fnVars

\* cache_cards: cr_api.get_cards() returned or raised.
CacheCardsFetch(ok) ==
    /\ mainPc = "cache_fetch"
    /\ mainPc' = MainAfter("cache_fetch", ok)
    /\ cardsTried' = TRUE
    /\ UNCHANGED <<players, taskVars, limiterVars, groupVars, histVars, storeVars,
                   cacheVars, incrs, activeAtLoad, failedLoad>>
    /\ UNCHANGED fnVars

\* cache_cards: build_redis_key(version_ahead=True) returned or raised.
CacheCardsKey(ok) ==
    /\ mainPc = "cache_key"
    /\ mainPc' = MainAfter("cache_key", ok)
    /\ ckey' = IF ok THEN BuildRedisKey(version, "allCards", CacheCardsVersionAhead)
               ELSE ckey
    /\ UNCHANGED <<players, taskVars, limiterVars, groupVars, histVars, storeVars,
                   version, cache, aheadWritten, curLive, readerVars>>
    /\ UNCHANGED cycleVars
    /\ UNCHANGED fnVars

\* cache_cards: set_redis_json returned or raised.
CacheCardsSet(ok) ==
    /\ mainPc = "cache_set"
    /\ mainPc' = MainAfter("cache_set", ok)
    /\ cache' = IF ok THEN [cache EXCEPT ![ckey] = version + 1] ELSE cache
    /\ aheadWritten' = (aheadWritten \/ ok)
    /\ ckey' = NoKey
    /\ UNCHANGED <<players, taskVars, limiterVars, groupVars, histVars, storeVars,
                   version, curLive, readerVars>>
    /\ UNCHANGED cycleVars
    /\ UNCHANGED fnVars

\* redis_conn.increment_version() returned or raised.
IncrementVersion(ok) ==
    /\ mainPc = "incr"
    /\ mainPc' = MainAfter("incr", ok)
    /\ version' = IF ok THEN IncrementedVersion(version) ELSE version
    /\ incrs' = IF ok /\ incrs < 2 THEN incrs + 1 ELSE incrs
    /\ UNCHANGED <<cardsTried, activeAtLoad, failedLoad>>
    /\ curLive' = IF ok THEN aheadWritten ELSE curLive
    /\ aheadWritten' = IF ok THEN FALSE ELSE aheadWritten
    /\ UNCHANGED <<players, taskVars, limiterVars, groupVars, histVars, storeVars,
                   cache, ckey, rpc, rres, rkey, rver, resp, readFailed, rhit>>
    /\ UNCHANGED fnVars

\* The sleep at the end of a cycle is over: main() is at the top of its loop,
\* sets `players = set()` and awaits the load.
SleepDone ==
    /\ mainPc = "sleep"
    /\ mainPc' = MainAfter("sleep", TRUE)
    /\ players' = {}
    /\ UNCHANGED <<taskVars, limiterVars, groupVars, histVars, storeVars,
                   cacheVars>>
    /\ UNCHANGED cycleVars
    /\ UNCHANGED fnVars

\* One second passes.
Tick ==
    /\ ~abortPending
    /\ NoneStarting
    /\ \/ nextAt > 0
       \/ sinceAcq < Interval
       \/ \E p \in Tags : timer[p] > 0
    /\ nextAt' = IF nextAt > 0 THEN nextAt - 1 ELSE 0
    /\ timer' = [p \in Tags |-> IF timer[p] > 0 THEN timer[p] - 1 ELSE 0]
    /\ sinceAcq' = IF sinceAcq < Interval THEN sinceAcq + 1 ELSE sinceAcq
    /\ UNCHANGED <<mainPc, players, tpc, tres, attempt, lockHolder, waiters, groupVars,
                   dispatched, allTransient, sentinel, refused, maint, lateDispatch, acqGap,
                   storeVars, cacheVars>>
    /\ UNCHANGED cycleVars
    /\ UNCHANGED fnVars

\* ------------------------------------------------------ the cached read path
\* redis_service.get_redis_json: `raw_data = await conn.client.get(key)`, then
\* `json.loads(raw_data) if raw_data else None`.  io is what the read met: "ok",
\* "conn_error" (the get raised) or "bad_payload" (the entry is no JSON).
\* The read met a failure: the connection, or an entry that is no JSON.
ReadMetFailure(io, entry) ==
    \/ io = "conn_error"
    \/ io = "bad_payload" /\ entry # NoEntry

GetRedisJson(io, entry) ==
    IF io = "conn_error" THEN [exc |-> "ConnectionError", value |-> NoEntry]
    ELSE IF io = "bad_payload" /\ entry # NoEntry
         THEN [exc |-> "JSONDecodeError", value |-> NoEntry]
    ELSE [exc |-> "none", value |-> entry]

\* The `except Exception` arm of a read handler (deck_percentage_stats,
\* get_cards): whatever was raised inside leaves as an HTTP error.
HandlerError(exc) == "http_error"

\* A request arrives.  get_cards builds its fixed key at once and awaits the
\* read; deck_percentage_stats awaits build_redis_key, which reads the
\* version.  rver is the version that is current when the key is built.
ReadStart(resource) ==
    /\ rpc = "idle"
    /\ rres' = resource
    /\ resp' = ""
    /\ readFailed' = FALSE
    /\ rhit' = NoEntry
    /\ IF resource = "allCards"
       THEN /\ rpc' = "get"
            /\ rkey' = BuildRedisKeyUnversioned(resource)
            /\ rver' = version
       ELSE /\ rpc' = "key"
            /\ UNCHANGED <<rkey, rver>>
    /\ UNCHANGED <<mainPc, players, taskVars, limiterVars, groupVars, histVars,
                   storeVars, version, cache, ckey, aheadWritten, curLive>>
    /\ UNCHANGED cycleVars
    /\ UNCHANGED fnVars

\* deck_percentage_stats: build_redis_key(conn, service, resource, params)
\* returned or raised.
ReadKey(ok) ==
    /\ rpc = "key"
    /\ rpc' = IF ok THEN "get" ELSE "done"
    /\ rkey' = IF ok THEN BuildRedisKey(version, rres, FALSE) ELSE rkey
    /\ rver' = IF ok THEN version ELSE rver
    /\ resp' = IF ok THEN resp ELSE HandlerError("ConnectionError")
    /\ UNCHANGED <<mainPc, players, taskVars, limiterVars, groupVars, histVars,
                   storeVars, version, cache, ckey, aheadWritten, curLive, rres,
                   readFailed, rhit>>
    /\ UNCHANGED cycleVars
    /\ UNCHANGED fnVars

\* get_redis_json(redis_conn, key) returned or raised: a hit is the response,
\* a miss goes on to the storage, an exception ends in the handler's except.
ReadGet(io) ==
    LET got == GetRedisJson(io, cache[rkey]) IN
    /\ rpc = "get"
    /\ readFailed' = ReadMetFailure(io, cache[rkey])
    /\ rhit' = got.value
    /\ IF got.exc # "none"
       THEN /\ rpc' = "done"
            /\ resp' = HandlerError(got.exc)
       ELSE IF got.value # NoEntry
       THEN /\ rpc' = "done"
            /\ resp' = "cached"
       ELSE /\ rpc' = "compute"
            /\ resp' = resp
    /\ UNCHANGED <<mainPc, players, taskVars, limiterVars, groupVars, histVars,
                   storeVars, version, cache, ckey, aheadWritten, curLive, rres, rkey,
                   rver>>
    /\ UNCHANGED cycleVars
    /\ UNCHANGED fnVars

\* The source of truth (get_decks_win_percentage, cr_api.get_cards) returned
\* a result (ok), or it raised or returned nothing, which the handler turns
\* into an HTTPException inside its own try.
ReadCompute(ok) ==
    /\ rpc = "compute"
    /\ rpc' = IF ok THEN "set" ELSE "done"
    /\ resp' = IF ok THEN resp ELSE HandlerError("Exception")
    /\ UNCHANGED <<mainPc, players, taskVars, limiterVars, groupVars, histVars,
                   storeVars, version, cache, ckey, aheadWritten, curLive, rres, rkey,
                   rver, readFailed, rhit>>
    /\ UNCHANGED cycleVars
    /\ UNCHANGED fnVars

\* A handler that builds the key again when it writes back, for C18's
\* sensitivity to the key of the write.
WriteBackKeyRebuilt(key, ver, resource) == BuildRedisKey(ver, resource, FALSE)

\* The key the handler hands to set_redis_json: its local `key`.
WriteBackKey(key, ver, resource) == key

\* An entry is modelled by the version it was written under: the version of
\* its key, or for a key without a version the one current at the write.
WrittenUnder(key, ver) == IF key.ver = 0 THEN ver ELSE key.ver

\* set_redis_json(redis_conn, key, value, ttl) returned or raised; the value
\* is returned after it.
ReadSet(ok) ==
    /\ rpc = "set"
    /\ rpc' = "done"
    /\ cache' = IF ok THEN [cache EXCEPT ![WriteBackKey(rkey, version, rres)] =
                                            WrittenUnder(rkey, version)]
              ELSE cache
    /\ resp' = IF ok THEN "computed" ELSE HandlerError("ConnectionError")
    /\ UNCHANGED <<mainPc, players, taskVars, limiterVars, groupVars, histVars,
                   storeVars, version, ckey, aheadWritten, curLive, rres, rkey, rver,
                   readFailed, rhit>>
    /\ UNCHANGED cycleVars
    /\ UNCHANGED fnVars

\* The response was sent: the request and its locals are gone; the next
\* request may come.
ReadEnd ==
    /\ rpc = "done"
    /\ rpc' = "idle"
    /\ rres' = "allCards"
    /\ rkey' = NoKey
    /\ rver' = 0
    /\ resp' = ""
    /\ readFailed' = FALSE
    /\ rhit' = NoEntry
    /\ UNCHANGED <<mainPc, players, taskVars, limiterVars, groupVars, histVars,
                   storeVars, version, cache, ckey, aheadWritten, curLive>>
    /\ UNCHANGED cycleVars
    /\ UNCHANGED fnVars

\* The TTL of an entry runs out (every TTL is jittered: any entry may go first).
Expire(k) ==
    /\ cache[k] # NoEntry
    /\ cache' = [cache EXCEPT ![k] = NoEntry]
    /\ aheadWritten' = (aheadWritten /\ k # BuildRedisKey(version, "allCards", TRUE))
    /\ curLive' = (curLive /\ k # BuildRedisKey(version, "allCards", FALSE))
    /\ UNCHANGED <<mainPc, players, taskVars, limiterVars, groupVars, histVars,
                   storeVars, version, ckey, rpc, rres, rkey, rver, resp, readFailed,
                   rhit>>
    /\ UNCHANGED cycleVars
    /\ UNCHANGED fnVars

\* ------------------------------------------------------- the specifications
\* What the driver did with the insert_many: "ok" stored a document (and
\* reported at most duplicate keys besides), "duplicate" stored none and
\* reported a duplicate key, "partial_error" stored a document and raised a
\* bulk write error without a duplicate key, "write_error" stored none and
\* raised.  An update_one returns or raises.
DbResults == {"ok", "duplicate", "partial_error", "write_error"}
UpdateResults == {"ok", "write_error"}
ReadResults == {"ok", "conn_error", "bad_payload"}

\* The players collections with at most MaxTasks active players: tags are
\* interchangeable, so the active ones are taken from TrackedTags.
SmallCollections ==
    {coll \in PlayerCollections : \A t \in Tags \ TrackedTags : coll[t] # "active"}

\* The steps of the scraper apart from the answers of the API client.
Scraper ==
    \/ \E coll \in SmallCollections, ok \in BOOLEAN : LoadPlayers(coll, ok)
    \/ IdleSleepDone
    \/ \E p \in Tags : TaskStart(p)
    \/ \E p \in Tags : LockGranted(p)
    \/ \E p \in Tags : LimiterWake(p)
    \/ \E p \in Tags : BackoffWake(p)
    \/ \E p \in Tags, db \in DbResults : InsertDone(p, db)
    \/ \E p \in Tags, db \in UpdateResults : SetNameDone(p, db)
    \/ GroupDone
    \/ \E ok \in BOOLEAN : CountBattles(ok)
    \/ \E ok \in BOOLEAN : CacheCardsFetch(ok)
    \/ \E ok \in BOOLEAN : CacheCardsKey(ok)
    \/ \E ok \in BOOLEAN : CacheCardsSet(ok)
    \/ \E ok \in BOOLEAN : IncrementVersion(ok)
    \/ SleepDone
    \/ Tick

\* The scraper against an API client that does what process_player and
\* run_players_cycle are written for: get_player_battle_logs may raise the
\* maintenance error.
Next ==
    \/ Scraper
    \/ TaskGroupAbort
    \/ \E p \in Tags, o \in ContractOutcomes : FetchDone(p, o, FALSE)

Spec == Init /\ [][Next]_vars

\* The scraper with the API client of the repository: every answer of the
\* upstream goes through ClashRoyaleAPI._request.  No task ever raises here,
\* so the group never aborts.
NextClient ==
    \/ Scraper
    \/ \E p \in Tags, up \in Upstream :
           FetchDone(p, GetPlayerBattleLogs(up), up.status = 200 /\ up.body = "maintenance")

SpecClient == Init /\ [][NextClient]_vars

\* One cycle with every tag tracked, from the load to the end of the
\* TaskGroup, against the API client of the contract: a failing task can have
\* more than one sibling whose next step is already scheduled.  A task is
\* answered with a transient error on fewer than GroupFetches of its requests.
AllActive == [t \in Tags |-> "active"]

NextGroup ==
    \/ LoadPlayers(AllActive, TRUE)
    \/ \E p \in Tags : TaskStart(p)
    \/ \E p \in Tags : LockGranted(p)
    \/ \E p \in Tags : LimiterWake(p)
    \/ \E p \in Tags : BackoffWake(p)
    \/ \E p \in Tags, o \in ContractOutcomes :
           /\ IsTransient(o) => dispatched[p] < GroupFetches
           /\ FetchDone(p, o, FALSE)
    \/ \E p \in Tags, db \in DbResults : InsertDone(p, db)
    \/ \E p \in Tags, db \in UpdateResults : SetNameDone(p, db)
    \/ TaskGroupAbort
    \/ GroupDone
    \/ Tick

SpecGroup == Init /\ [][NextGroup]_vars

\* The same scraper under the scheduling the event loop gives: the clock
\* advances, a task whose first step is scheduled runs it, the asyncio.Lock is
\* handed to the first waiter once it is free, and a task whose sleep is over
\* is resumed.
SpecClientFair ==
    /\ SpecClient
    /\ WF_vars(Tick)
    /\ \A p \in Tags : WF_vars(TaskStart(p))
    /\ \A p \in Tags : WF_vars(LockGranted(p))
    /\ \A p \in Tags : WF_vars(LimiterWake(p))

\* The cache between the scraper and the read requests of the web API, with
\* one tracked player: the scraper's cycles write the card catalogue ahead and
\* increment the version, a request reads through the cache, entries expire.
OnePlayer == {CHOOSE p \in Tags : TRUE}
OnePlayerCollection == [t \in Tags |-> IF t \in OnePlayer THEN "active" ELSE "inactive"]

NextCache ==
    \/ \E ok \in BOOLEAN : LoadPlayers(OnePlayerCollection, ok)
    \/ \E p \in Tags : TaskStart(p)
    \/ \E p \in Tags : LimiterWake(p)
    \/ \E p \in Tags : BackoffWake(p)
    \/ \E p \in Tags, up \in Upstream :
           FetchDone(p, GetPlayerBattleLogs(up), up.status = 200 /\ up.body = "maintenance")
    \/ \E p \in Tags, db \in DbResults : InsertDone(p, db)
    \/ \E p \in Tags, db \in UpdateResults : SetNameDone(p, db)
    \/ GroupDone
    \/ \E ok \in BOOLEAN : CountBattles(ok)
    \/ \E ok \in BOOLEAN : CacheCardsFetch(ok)
    \/ \E ok \in BOOLEAN : CacheCardsKey(ok)
    \/ \E ok \in BOOLEAN : CacheCardsSet(ok)
    \/ \E ok \in BOOLEAN : IncrementVersion(ok)
    \/ SleepDone
    \/ Tick
    \/ \E resource \in Resources : ReadStart(resource)
    \/ \E ok \in BOOLEAN : ReadKey(ok)
    \/ \E io \in ReadResults : ReadGet(io)
    \/ \E ok \in BOOLEAN : ReadCompute(ok)
    \/ \E ok \in BOOLEAN : ReadSet(ok)
    \/ ReadEnd
    \/ \E k \in CacheKeys : Expire(k)

SpecCache == Init /\ [][NextCache]_vars

\* --------------------------------------------------------------- clean.py
MaxCrowns == 3          \* crown counts of a participant range over 0..MaxCrowns
MaxParticipants == 2    \* participants of a side

\* A participant as determine_game_result reads it: its crowns, or none.
Participants == [has : BOOLEAN, crowns : 0..MaxCrowns]
Sides == UNION {[1..n -> Participants] : n \in 1..MaxParticipants}
ResultBattles == [team : Sides, opponent : Sides]

\* player.get("crowns", 0)
CrownsOf(player) == IF player.has THEN player.crowns ELSE 0

\* clean.determine_game_result
DetermineGameResult(battle) ==
    LET own_crowns == CrownsOf(battle.team[1])
        opponent_crowns == CrownsOf(battle.opponent[1])
    IN  IF own_crowns > opponent_crowns THEN "Victory"
        ELSE IF own_crowns < opponent_crowns THEN "Defeat"
        ELSE "Draw"

\* determine_game_result is applied to a battle.
DetermineStep ==
    /\ fnPc = "call"
    /\ fnPc' = "done"
    /\ fnOut' = DetermineGameResult(fnIn)
    /\ UNCHANGED <<progVars, fnIn>>

InitResult ==
    /\ InitProgram
    /\ fnPc = "call"
    /\ fnIn \in ResultBattles
    /\ fnOut = "none"

SpecResult == InitResult /\ [][DetermineStep]_vars

\* ------------------------------------- clean.py: the fetched log, match by match
MaxRounds == 2          \* rounds of a duel participant

\* A battleTime string "%Y%m%dT%H%M%S.000Z", as far as its minute and second;
\* has = FALSE is a match without the field.
NoTime == [has |-> FALSE, mm |-> 0, ss |-> 0]

\* datetime.strptime: the instant, in seconds, of a battleTime string.
Strptime(str) == str.mm * 60 + str.ss

\* datetime.strftime: the battleTime string of an instant.
Strftime(dt) == [has |-> TRUE, mm |-> dt \div 60, ss |-> dt % 60]

\* A participant of a fetched match.  cards, crowns, kingTowerHitPoints,
\* princessTowersHitPoints and elixirLeaked say whose values the field holds:
\* 0 the participant's own, i those of its round i; cards = -1 is a
\* participant without a cards field.  rounds is the length of its rounds
\* list, 0 when it has none.
Fighter(cards, rounds) ==
    [cards |-> cards, crowns |-> 0, kingTowerHitPoints |-> 0,
     princessTowersHitPoints |-> 0, elixirLeaked |-> 0, rounds |-> rounds]

FetchedParticipants == {Fighter(c, r) : c \in {-1, 0}, r \in 0..MaxRounds}

\* The team or opponent field of a match: absent, or a list of participants.
FetchedSides ==
    {[has |-> FALSE, list |-> <<>>]}
    \cup {[has |-> TRUE, list |-> l] :
            l \in UNION {[1..n -> FetchedParticipants] : n \in 0..MaxParticipants}}

FetchedTimes == {NoTime} \cup {[has |-> TRUE, mm |-> 0, ss |-> s] : s \in {0, 58, 59}}

\* A match of the fetched log.  origin is the position the match has in the
\* fetched log; the records derived from it keep it as their history.
FetchedMatches ==
    [battleTime : FetchedTimes, team : FetchedSides, opponent : FetchedSides,
     arena : BOOLEAN, gameMode : BOOLEAN, origin : {0}]

\* An ordinary complete match, one participant a side.
PlainMatch ==
    [battleTime |-> Strftime(30),
     team |-> [has |-> TRUE, list |-> <<Fighter(0, 0)>>],
     opponent |-> [has |-> TRUE, list |-> <<Fighter(0, 0)>>],
     arena |-> TRUE, gameMode |-> TRUE, origin |-> 0]

At(match, pos) == [match EXCEPT !.origin = pos]

\* The fetched logs that hold match m: m alone, before or after a plain
\* match; and the empty log.
FetchedLogs(m) ==
    {<<>>, <<At(m, 1)>>, <<At(m, 1), At(PlainMatch, 2)>>, <<At(PlainMatch, 1), At(m, 2)>>}

\* clean.validate_battle_log_structure: a non-empty list whose first element
\* is a dict.
ValidBattleLogStructure(battle_logs) == Len(battle_logs) > 0

\* The checks of clean.validate_battle_log_content, on one match.
ContentOk(battle) ==
    /\ battle.battleTime.has /\ battle.team.has /\ battle.opponent.has
    /\ battle.arena /\ battle.gameMode
    /\ Len(battle.team.list) > 0 /\ Len(battle.opponent.list) > 0
    /\ \A i \in DOMAIN battle.team.list : battle.team.list[i].cards # -1
    /\ \A i \in DOMAIN battle.opponent.list : battle.opponent.list[i].cards # -1

\* clean.validate_battle_log_content: the checks, on the first match.
ValidBattleLogContent(battle_logs) == ContentOk(battle_logs[1])

\* clean.extract_duel_battles: the rounds both first participants have.
DuelRounds(battle) ==
    LET team_rounds == IF battle.team.has /\ Len(battle.team.list) > 0
                       THEN battle.team.list[1].rounds ELSE 0
        opp_rounds == IF battle.opponent.has /\ Len(battle.opponent.list) > 0
                      THEN battle.opponent.list[1].rounds ELSE 0
    IN  IF team_rounds < opp_rounds THEN team_rounds ELSE opp_rounds

\* Player #0 with the values of its round i written onto it and its rounds
\* list popped.
RoundOnto(player, i) ==
    [player EXCEPT !.cards = i, !.crowns = i, !.kingTowerHitPoints = i,
                   !.princessTowersHitPoints = i, !.elixirLeaked = i,
                   !.rounds = 0]

\* An extract_duel_battles that leaves the battleTime of every round as it
\* is, for C15's sensitivity to the shift.
DuelBattleUnshifted(battle, i) ==
    [battle EXCEPT
        !.team.list[1] = RoundOnto(@, i),
        !.opponent.list[1] = RoundOnto(@, i),
        !.battleTime = Strftime(Strptime(battle.battleTime))]

\* The battle extract_duel_battles appends for round i (the code's i - 1): a
\* copy of the match with the round written onto both players #0 and the
\* battleTime shifted by the round's position, as a string again.
DuelBattle(battle, i) ==
    [battle EXCEPT
        !.team.list[1] = RoundOnto(@, i),
        !.opponent.list[1] = RoundOnto(@, i),
        !.battleTime = Strftime(Strptime(battle.battleTime) + (i - 1))]

\* clean.extract_duel_battles.  It raises when there is a round to extract
\* and the match has no battleTime.
ExtractDuelRaises(battle) == DuelRounds(battle) > 0 /\ ~battle.battleTime.has
ExtractDuelBattles(battle) == [i \in 1..DuelRounds(battle) |-> DuelBattle(battle, i)]

\* clean_battle_log_list: `battle.get("team") and battle["team"][0].get("rounds")`.
IsDuel(battle) ==
    /\ battle.team.has /\ Len(battle.team.list) > 0
    /\ battle.team.list[1].rounds > 0

\* What raises while clean_battle_log_list cleans a match that is no duel:
\* strptime of a missing battleTime, clean_battle adding a missing side or
\* walking missing cards, determine_game_result indexing an empty side, and
\* .get on a missing arena or gameMode.
CleanRaises(battle) ==
    \/ ~battle.battleTime.has
    \/ ~battle.team.has \/ ~battle.opponent.has
    \/ \E i \in DOMAIN battle.team.list : battle.team.list[i].cards = -1
    \/ \E i \in DOMAIN battle.opponent.list : battle.opponent.list[i].cards = -1
    \/ Len(battle.team.list) = 0 \/ Len(battle.opponent.list) = 0
    \/ ~battle.arena \/ ~battle.gameMode

\* The record clean_battle_log_list makes of a match that is no duel (its
\* gameResult is DetermineGameResult above).
Cleaned(battle, player_tag) ==
    [referencePlayerTag |-> player_tag,
     battleTime |-> Strptime(battle.battleTime),
     team |-> battle.team.list, opponent |-> battle.opponent.list,
     origin |-> battle.origin]

\* The while loop of clean_battle_log_list from index i on (the code's i - 1),
\* done being the records already made: a duel is popped and its extracted
\* battles spliced in at i, any other match is cleaned in place.
RECURSIVE CleanFrom(_, _, _, _)
CleanFrom(battle_logs, i, done, player_tag) ==
    IF i > Len(battle_logs) THEN [raised |-> FALSE, records |-> done]
    ELSE LET battle == battle_logs[i]
         IN  IF IsDuel(battle)
             THEN IF ExtractDuelRaises(battle)
                  THEN [raised |-> TRUE, records |-> <<>>]
                  ELSE CleanFrom(SubSeq(battle_logs, 1, i - 1)
                                     \o ExtractDuelBattles(battle)
                                     \o SubSeq(battle_logs, i + 1, Len(battle_logs)),
                                 i, done, player_tag)
             ELSE IF CleanRaises(battle)
                  THEN [raised |-> TRUE, records |-> <<>>]
                  ELSE CleanFrom(battle_logs, i + 1,
                                 Append(done, Cleaned(battle, player_tag)), player_tag)

\* clean.clean_battle_log_list
CleanBattleLogList(battle_logs, player_tag) == CleanFrom(battle_logs, 1, <<>>, player_tag)

\* clean.get_player_name, handed the list clean_battle_log_list has cleaned
\* in place: TRUE when it raises.  `battles[0]` raises on an empty list; the
\* team of a cleaned record is a list.
GetPlayerNameRaises(cleaned_logs) == Len(cleaned_logs) = 0

\* process_player from the fetched log to insert_battles: what it ends with
\* and the records it hands to insert_battles.
ProcessLog(battle_logs, player_tag) ==
    IF Len(battle_logs) = 0 THEN [res |-> "no_logs", inserted |-> <<>>]
    ELSE IF ~ValidBattleLogStructure(battle_logs) \/ ~ValidBattleLogContent(battle_logs)
         THEN [res |-> "unusable", inserted |-> <<>>]
    ELSE LET cleaned == CleanBattleLogList(battle_logs, player_tag)
         IN  IF cleaned.raised THEN [res |-> "unknown_error", inserted |-> <<>>]
             ELSE IF GetPlayerNameRaises(cleaned.records)
                  THEN [res |-> "unknown_error", inserted |-> <<>>]
             ELSE [res |-> "stored", inserted |-> cleaned.records]

\* process_player handles one fetched log.
ProcessLogStep ==
    /\ fnPc = "call"
    /\ fnPc' = "done"
    /\ \E p \in TrackedTags : fnOut' = ProcessLog(fnIn, p)
    /\ UNCHANGED <<progVars, fnIn>>

InitLog ==
    /\ InitProgram
    /\ fnPc = "call"
    /\ \E m \in FetchedMatches : fnIn \in FetchedLogs(m)
    /\ fnOut = "none"

SpecLog == InitLog /\ [][ProcessLogStep]_vars

\* ------------------------------------------- mongo: get_decks_win_percentage
MaxCardId == 2          \* card ids range over 1..MaxCardId
MaxLevel == 2           \* card levels range over 1..MaxLevel
MaxEvolution == 1       \* evolution levels range over 0..MaxEvolution
DeckSize == 2           \* cards of a deck

\* A stored card.  A field the document lacks is "absent" for the name, 0 for
\* the level and -1 for the evolutionLevel.
StoredCards ==
    [id : 1..MaxCardId, name : {"absent", "Knight"},
     level : 0..MaxLevel, evolutionLevel : (-1)..MaxEvolution]

\* The decks of the reference participant: DeckSize cards of different ids.
StoredDecks ==
    {d \in [1..DeckSize -> StoredCards] :
        \A i, j \in 1..DeckSize : i # j => d[i].id # d[j].id}

\* extract_deck_cards_stage: the $map over the reference participant's cards,
\* with the $ifNull defaults.
DeckCards(cards) ==
    [i \in DOMAIN cards |->
        [id |-> cards[i].id,
         name |-> IF cards[i].name = "absent" THEN "UNKNOWN" ELSE cards[i].name,
         level |-> IF cards[i].level = 0 THEN 1 ELSE cards[i].level,
         evolutionLevel |->
             IF cards[i].evolutionLevel = -1 THEN 0 ELSE cards[i].evolutionLevel]]

\* The sortBy of the $sortArray: evolutionLevel descending, then id ascending.
SortsBefore(c, d) ==
    \/ c.evolutionLevel > d.evolutionLevel
    \/ c.evolutionLevel = d.evolutionLevel /\ c.id <= d.id

\* A deckSorted that keeps the stored order, for C27's sensitivity to the
\* $sortArray.
DeckUnsorted(cards) == cards

\* $sortArray: the arrangement of the mapped cards in the sortBy order.
DeckSorted(cards) ==
    CHOOSE s \in [DOMAIN cards -> {cards[i] : i \in DOMAIN cards}] :
        /\ \A c \in {cards[i] : i \in DOMAIN cards} :
              Cardinality({i \in DOMAIN cards : s[i] = c})
                  = Cardinality({i \in DOMAIN cards : cards[i] = c})
        /\ \A i, j \in DOMAIN cards : i < j => SortsBefore(s[i], s[j])

\* The _id of the $group: the sorted array of the mapped card documents.
GroupId(cards) == DeckSorted(DeckCards(cards))

\* Two filtered records are put into the same group of the $group stage.
SameDeckGroup(a, b) == GroupId(a) = GroupId(b)

\* The $group stage meets the decks of two filtered records.
GroupStep ==
    /\ fnPc = "call"
    /\ fnPc' = "done"
    /\ fnOut' = SameDeckGroup(fnIn.a, fnIn.b)
    /\ UNCHANGED <<progVars, fnIn>>

InitDecks ==
    /\ InitProgram
    /\ fnPc = "call"
    /\ fnIn \in [a : StoredDecks, b : StoredDecks]
    /\ fnOut = "none"

SpecDecks == InitDecks /\ [][GroupStep]_vars

\* ----------------------------------------------------- mongo: insert_battles
MaxBattleTime == 1      \* battleTime instants range over 0..MaxBattleTime
MaxBatch == 2           \* records of one insert_many

\* The key of a stored battle, kept unique by the collection's index.
BattleKeys == [referencePlayerTag : TrackedTags, battleTime : 0..MaxBattleTime]
NoRecord == "none"

\* A record of a batch: its key, its content (the gameResult stands for it)
\* and whether the server rejects the document for a reason of its own.
BatchRecords == [key : BattleKeys, gameResult : {"Victory", "Defeat"}, rejected : BOOLEAN]
Batches == UNION {[1..n -> BatchRecords] : n \in 0..MaxBatch}

\* The write error codes of the server: duplicate key, document rejected.
DuplicateKey == 11000
DocumentRejected == 121

\* The records of the batch the server can store under key k.
Storable(batch, k) == {i \in DOMAIN batch : batch[i].key = k /\ ~batch[i].rejected}

\* The collections insert_many(battle_logs, ordered=False) can leave behind:
\* a key already stored keeps its record, a new key gets one of the batch's
\* storable records of that key, in the order the server happens to take.
InsertMany(store, batch) ==
    {s \in [BattleKeys -> {NoRecord, "Victory", "Defeat"}] :
        \A k \in BattleKeys :
            IF store[k] # NoRecord THEN s[k] = store[k]
            ELSE IF Storable(batch, k) = {} THEN s[k] = NoRecord
            ELSE \E i \in Storable(batch, k) : s[k] = batch[i].gameResult}

\* The codes of the writeErrors the server reports for the batch.
WriteErrors(store, batch) ==
    {DuplicateKey : i \in {j \in DOMAIN batch :
        /\ ~batch[j].rejected
        /\ \/ store[batch[j].key] # NoRecord
           \/ Cardinality(Storable(batch, batch[j].key)) > 1}}
    \cup {DocumentRejected : i \in {j \in DOMAIN batch : batch[j].rejected}}

\* An insert_battles that re-raises every BulkWriteError, for C16's
\* sensitivity to the duplicate-key arm.
BulkWriteErrorRaisesAlways(codes) == TRUE

\* insert_battles on a BulkWriteError with these codes: TRUE when it
\* re-raises, FALSE when it logs the duplicates and returns.
BulkWriteErrorRaises(codes) == DuplicateKey \notin codes

\* mongo.insert_battles: the collections it can leave behind and whether it
\* raises.  ensure_connected raises when the connection is down, insert_many
\* raises on an empty list before anything is sent.
InsertBattles(store, batch, connected) ==
    IF ~connected \/ Len(batch) = 0 THEN {[store |-> store, raised |-> TRUE]}
    ELSE {[store |-> s,
           raised |-> /\ WriteErrors(store, batch) # {}
                      /\ BulkWriteErrorRaises(WriteErrors(store, batch))] :
            s \in InsertMany(store, batch)}

\* insert_battles is called with the batch fnIn.
InsertBattlesStep ==
    /\ fnPc = "call"
    /\ fnPc' = "done"
    /\ fnOut' \in InsertBattles(fnOut.store, fnIn.batch, fnIn.connected)
    /\ UNCHANGED <<progVars, fnIn>>

\* The next batch arrives, the same one again or another.
NextBatch ==
    /\ fnPc = "done"
    /\ fnPc' = "call"
    /\ fnIn' \in [batch : Batches, connected : BOOLEAN]
    /\ UNCHANGED <<progVars, fnOut>>

InitStore ==
    /\ InitProgram
    /\ fnPc = "call"
    /\ fnIn \in [batch : Batches, connected : BOOLEAN]
    /\ fnOut = [store |-> [k \in BattleKeys |-> NoRecord], raised |-> FALSE]

NextStore == InsertBattlesStep \/ NextBatch

SpecStore == InitStore /\ [][NextStore]_vars

\* --------------------------------------- helpers/auth.py: the read-through helper
\* The captcha text of one captcha id.  get_captcha_id writes it under the key
\* one version ahead; get_captcha_text_from_cache builds the current key and
\* the key ahead, two reads of the global version, and then reads the cache
\* under the key ahead and, on a miss, under the current key.
\* get_wordle_challenge_from_cache does the same and returns the key too,
\* under which get_wordle_token writes the session back.
\*
\* fnIn is the cache as far as the captcha goes: entries, the keys that hold
\* the text; last, the key of the latest write; ahead, that key was one
\* version ahead when the text was set; bumps, the increments of the version
\* since then (saturating); pending, the key get_captcha_id has built and
\* not yet written under.  fnOut holds the helper's locals: key,
\* key_ahead, found (the key the text was read under, NoKey for None),
\* raised, calm: nothing changed the version or the entries since the
\* helper was called, and quiet: nothing but increments of the version did.
HelperResource == "captchaText"
HelperKeys == [ver : 1..(MaxVersion + 2), res : {HelperResource}]
HelperIdle == [key |-> NoKey, key_ahead |-> NoKey, found |-> NoKey,
               raised |-> FALSE, calm |-> TRUE, quiet |-> TRUE]

\* A helper that reads under the current key at once, for C17's sensitivity
\* to the read under the key ahead.
FirstLookupCurrent(key, key_ahead) == key

\* The key of the helper's first read, and of its second.
FirstLookup(key, key_ahead) == key_ahead
SecondLookup(key, key_ahead) == key

\* What the cache holds under key k: the version of the key, or nothing.
HelperEntry(k) == IF k \in fnIn.entries THEN k.ver ELSE NoEntry

\* Everything of the program but the global version.
helperFrame == <<mainPc, players, taskVars, limiterVars, groupVars, histVars,
                 storeVars, cache, ckey, aheadWritten, curLive, readerVars,
                 cycleVars>>

\* get_captcha_id is called: build_redis_key(version_ahead=True) reads the
\* version and returns the key, or raises and ends the handler.
StoreAheadKey(ok) ==
    /\ fnIn.pending = NoKey
    /\ fnIn' = [fnIn EXCEPT !.pending =
                    IF ok THEN BuildRedisKey(version, HelperResource, TRUE) ELSE NoKey]
    /\ UNCHANGED <<version, helperFrame, fnPc, fnOut>>

\* get_captcha_id: set_redis_json under the key it has built returned or
\* raised; the handler ends.
StoreAhead(ok) ==
    /\ fnIn.pending # NoKey
    /\ fnIn' = IF ok
               THEN [entries |-> fnIn.entries \cup {fnIn.pending},
                     last |-> fnIn.pending,
                     ahead |-> (fnIn.pending.ver = version + 1),
                     bumps |-> 0,
                     pending |-> NoKey]
               ELSE [fnIn EXCEPT !.pending = NoKey]
    /\ fnOut' = IF ok THEN [fnOut EXCEPT !.calm = FALSE, !.quiet = FALSE] ELSE fnOut
    /\ UNCHANGED <<version, helperFrame, fnPc>>

\* The scraper's increment_version, as the web process sees it.
VersionBump ==
    /\ version < MaxVersion + 1
    /\ version' = IncrementedVersion(version)
    /\ fnIn' = [fnIn EXCEPT !.bumps = IF @ < 2 THEN @ + 1 ELSE @]
    /\ fnOut' = [fnOut EXCEPT !.calm = FALSE]
    /\ UNCHANGED <<helperFrame, fnPc>>

\* The TTL of an entry runs out.
HelperExpire(k) ==
    /\ k \in fnIn.entries
    /\ fnIn' = [fnIn EXCEPT !.entries = @ \ {k}]
    /\ fnOut' = [fnOut EXCEPT !.calm = FALSE, !.quiet = FALSE]
    /\ UNCHANGED <<version, helperFrame, fnPc>>

\* The helper is called and its first build_redis_key returned the current
\* key, or raised: then the helper raises and reads nothing.
HelperKey(ok) ==
    /\ fnPc = "idle"
    /\ fnPc' = IF ok THEN "key_ahead" ELSE "done"
    /\ fnOut' = IF ok
                THEN [HelperIdle EXCEPT
                         !.key = BuildRedisKey(version, HelperResource, FALSE)]
                ELSE [HelperIdle EXCEPT !.raised = TRUE]
    /\ UNCHANGED <<version, helperFrame, fnIn>>

\* Its second build_redis_key returned the key one version ahead, or raised.
HelperKeyAhead(ok) ==
    /\ fnPc = "key_ahead"
    /\ fnPc' = IF ok THEN "get_first" ELSE "done"
    /\ fnOut' = IF ok
                THEN [fnOut EXCEPT
                         !.key_ahead = BuildRedisKey(version, HelperResource, TRUE)]
                ELSE [fnOut EXCEPT !.raised = TRUE]
    /\ UNCHANGED <<version, helperFrame, fnIn>>

\* The first get_redis_json returned or raised: a value ends the helper.
HelperGetFirst(io) ==
    LET k == FirstLookup(fnOut.key, fnOut.key_ahead)
        got == GetRedisJson(io, HelperEntry(k))
    IN  /\ fnPc = "get_first"
        /\ fnPc' = IF got.exc = "none" /\ got.value = NoEntry THEN "get_second" ELSE "done"
        /\ fnOut' = [fnOut EXCEPT !.raised = got.exc # "none",
                                   !.found = IF got.value # NoEntry THEN k ELSE NoKey]
        /\ UNCHANGED <<version, helperFrame, fnIn>>

\* The second get_redis_json returned or raised.
HelperGetSecond(io) ==
    LET k == SecondLookup(fnOut.key, fnOut.key_ahead)
        got == GetRedisJson(io, HelperEntry(k))
    IN  /\ fnPc = "get_second"
        /\ fnPc' = "done"
        /\ fnOut' = [fnOut EXCEPT !.raised = got.exc # "none",
                                   !.found = IF got.value # NoEntry THEN k ELSE NoKey]
        /\ UNCHANGED <<version, helperFrame, fnIn>>

\* The helper's caller is done with what it got.
HelperEnd ==
    /\ fnPc = "done"
    /\ fnPc' = "idle"
    /\ fnOut' = HelperIdle
    /\ UNCHANGED <<version, helperFrame, fnIn>>

\* get_wordle_token, handed a session and the key it was read under, has
\* evaluated the guess: set_redis_json writes the session back under that
\* key, with a new TTL, and returned or raised; the handler ends.
HelperWriteBack(ok) ==
    /\ fnPc = "done"
    /\ ~fnOut.raised
    /\ fnOut.found # NoKey
    /\ fnPc' = "idle"
    /\ fnIn' = IF ok
               THEN [fnIn EXCEPT !.entries = @ \cup {fnOut.found},
                                 !.last = fnOut.found,
                                 !.ahead = (fnOut.found.ver = version + 1),
                                 !.bumps = 0]
               ELSE fnIn
    /\ fnOut' = HelperIdle
    /\ UNCHANGED <<version, helperFrame>>

InitHelper ==
    /\ InitProgram
    /\ fnPc = "idle"
    /\ fnIn = [entries |-> {}, last |-> NoKey, ahead |-> FALSE, bumps |-> 0,
               pending |-> NoKey]
    /\ fnOut = HelperIdle

NextHelper ==
    \/ \E ok \in BOOLEAN : StoreAheadKey(ok)
    \/ \E ok \in BOOLEAN : StoreAhead(ok)
    \/ VersionBump
    \/ \E k \in HelperKeys : HelperExpire(k)
    \/ \E ok \in BOOLEAN : HelperKey(ok)
    \/ \E ok \in BOOLEAN : HelperKeyAhead(ok)
    \/ \E io \in ReadResults : HelperGetFirst(io)
    \/ \E io \in ReadResults : HelperGetSecond(io)
    \/ HelperEnd
    \/ \E ok \in BOOLEAN : HelperWriteBack(ok)

SpecHelper == InitHelper /\ [][NextHelper]_vars

\* -------------------------------------------- redis_service: build_redis_key
\* Strings are sequences of atoms.  "#" and "A" are characters; "X" stands
\* for a run of MaxKeyBytes letters, which makes a key too long; a parameter
\* name, a service or a resource is one atom.
MaxValueLen == 2        \* atoms of a parameter value
MaxKeyBytes == 512

ParamNames == {"endDate", "playerTag", "startDate"}
ParamValues == UNION {[1..n -> {"#", "A", "X"}] : n \in 0..MaxValueLen}

\* len(s.encode("utf-8")) of an atom.
AtomBytes(c) ==
    IF c = "X" THEN MaxKeyBytes
    ELSE IF c \in {"playerTag", "startDate"} THEN 9
    ELSE IF c = "endDate" THEN 7
    ELSE IF c = "player_tag" THEN 10
    ELSE IF c \in {"crApi"} THEN 5
    ELSE IF c = "playerDecks" THEN 11
    ELSE 1

RECURSIVE Bytes(_)
Bytes(str) == IF str = <<>> THEN 0 ELSE AtomBytes(Head(str)) + Bytes(Tail(str))

\* urllib.parse.quote(s, safe=""): "#" becomes %23, letters stay.
RECURSIVE Quote(_)
Quote(str) ==
    IF str = <<>> THEN <<>>
    ELSE (IF Head(str) = "#" THEN <<"%", "2", "3">> ELSE <<Head(str)>>) \o Quote(Tail(str))

\* str.lstrip("#")
RECURSIVE LStrip(_)
LStrip(str) ==
    IF str # <<>> /\ Head(str) = "#" THEN LStrip(Tail(str)) ELSE str

\* ":".join(parts)
RECURSIVE Join(_)
Join(parts) ==
    IF parts = <<>> THEN <<>>
    ELSE IF Len(parts) = 1 THEN parts[1]
    ELSE parts[1] \o <<":">> \o Join(Tail(parts))

\* The order of Python's str on the parameter names.
NameBefore(k, l) ==
    \/ k = "endDate" /\ l \in {"playerTag", "startDate"}
    \/ k = "playerTag" /\ l = "startDate"

\* The parameters in the order the caller's dict yields them, unsorted, for
\* C20's sensitivity to the sort.
Unsorted(other_params) == other_params

\* sorted(other_params): the pairs by their names.
Sorted(other_params) ==
    CHOOSE srt \in [DOMAIN other_params -> {other_params[i] : i \in DOMAIN other_params}] :
        /\ \A i \in DOMAIN other_params : \E j \in DOMAIN other_params : srt[j] = other_params[i]
        /\ \A i, j \in DOMAIN other_params : i < j => NameBefore(srt[i].k, srt[j].k)

\* SelectSeq without the playerTag: [(k, v) for k, v in params.items() if k != "playerTag"]
OtherParams(params) ==
    LET NotTag(pair) == pair.k # "playerTag" IN SelectSeq(params, NotTag)

\* f"{key_str}={val_str}"
Segment(k, v) == <<k>> \o <<"=">> \o Quote(v)

\* redis_service.build_redis_key(service, resource, params), params being the
\* (name, value) pairs of the dict in its iteration order.  The result is the
\* key's text and, for a key that was too long, what the md5 was taken of.
BuildRedisKeyString(service, resource, params) ==
    LET tags == {i \in DOMAIN params : params[i].k = "playerTag"}
        hasTag == tags # {}
        tag == IF hasTag THEN params[CHOOSE i \in tags : TRUE].v ELSE <<>>
        srt == Sorted(OtherParams(params))
        parts == <<<<service>>, <<resource>>>>
                 \o (IF hasTag THEN <<Segment("playerTag", LStrip(tag))>> ELSE <<>>)
                 \o [i \in DOMAIN srt |-> Segment(srt[i].k, srt[i].v)]
        key == Join(parts)
    IN  IF Bytes(key) <= MaxKeyBytes THEN [text |-> key, md5 |-> <<>>]
        ELSE IF tag # <<>>
             THEN [text |-> Join(<<<<service>>, <<resource>>,
                                   <<"player_tag", "=">> \o LStrip(tag)>>),
                   md5 |-> key]
        ELSE [text |-> Join(<<<<service>>, <<resource>>>>), md5 |-> key]

\* The orders in which a dict of these names and values can yield its pairs.
Orders(keys, value) ==
    {[i \in DOMAIN o |-> [k |-> o[i], v |-> value[o[i]]]] :
        o \in {q \in [1..Cardinality(keys) -> keys] :
                  \A i, j \in 1..Cardinality(keys) : i # j => q[i] # q[j]}}

\* build_redis_key is called for the same mapping in two orders.
BuildKeysStep ==
    /\ fnPc = "call"
    /\ fnPc' = "done"
    /\ fnOut' = [a |-> BuildRedisKeyString("crApi", "playerDecks", fnIn.a),
                 b |-> BuildRedisKeyString("crApi", "playerDecks", fnIn.b)]
    /\ UNCHANGED <<progVars, fnIn>>

InitKeys ==
    /\ InitProgram
    /\ fnPc = "call"
    /\ \E keys \in SUBSET ParamNames : \E value \in [keys -> ParamValues] :
          fnIn \in [a : Orders(keys, value), b : Orders(keys, value)]
    /\ fnOut = "none"

SpecKeys == InitKeys /\ [][BuildKeysStep]_vars

\* ------------------------------------- the doubles of Python and of MongoDB
\* A double above 0 is [bits, exp]: bits, the digits of its significand,
\* most significant first and the first one 1, read as a natural number n;
\* the double is n * 2^exp.  Zero has no digits.  The naturals handed in
\* are below 2^15.
Precision == 53         \* binary digits of the significand of a double
Zero == [bits |-> <<>>, exp |-> 0]

\* n zero digits (none for n below 1).
Zeros(n) == [i \in 1..(IF n > 0 THEN n ELSE 0) |-> 0]

\* The n last binary digits of a natural number, and all its digits.
FixedBits(v, n) == [i \in 1..n |-> (v \div 2^(n - i)) % 2]
NatBits(v) == FixedBits(v, CHOOSE n \in 0..30 : v < 2^n /\ (n = 0 \/ v >= 2^(n - 1)))

\* The number of a few digits.
RECURSIVE BitsNat(_)
BitsNat(bits) ==
    IF bits = <<>> THEN 0
    ELSE 2 * BitsNat(SubSeq(bits, 1, Len(bits) - 1)) + bits[Len(bits)]

\* 2^i modulo q.
RECURSIVE PowerOfTwoMod(_, _)
PowerOfTwoMod(i, q) ==
    IF i = 0 THEN 1 % q
    ELSE LET h == PowerOfTwoMod(i \div 2, q)
         IN  (((h * h) % q) * (IF i % 2 = 1 THEN 2 ELSE 1)) % q

\* The first n binary digits of r / q after the point, for 0 <= r < q, and
\* whether anything is left after them: the i-th digit is the whole part of
\* twice the rest that the i - 1 digits before it leave.
FractionBits(r, q, n) ==
    [bits |-> [i \in 1..n |-> (2 * ((r * PowerOfTwoMod(i - 1, q)) % q)) \div q],
     inexact |-> (r * PowerOfTwoMod(n, q)) % q # 0]

\* The zero digits of r / q between the point and its first 1, for 0 < r < q.
RECURSIVE LeadingZeros(_, _)
LeadingZeros(r, q) == IF 2 * r >= q THEN 0 ELSE 1 + LeadingZeros(2 * r, q)

\* The digits of n + 1 for the digits of n.
Increment(bits) ==
    LET zeros == {i \in 1..Len(bits) : bits[i] = 0}
    IN  IF zeros = {} THEN <<1>> \o Zeros(Len(bits))
        ELSE LET last == CHOOSE i \in zeros : \A j \in zeros : j <= i
             IN  [i \in 1..Len(bits) |->
                     IF i < last THEN bits[i] ELSE IF i = last THEN 1 ELSE 0]

\* The digits of n * k + carry for the digits of n (below 2^18 for k and
\* carry), twelve digits of n at a time from the last ones on.
RECURSIVE TimesCarry(_, _, _)
TimesCarry(bits, k, carry) ==
    IF bits = <<>> THEN NatBits(carry)
    ELSE LET n == Len(bits)
             c == IF n < 12 THEN n ELSE 12
             t == BitsNat(SubSeq(bits, n - c + 1, n)) * k + carry
         IN  TimesCarry(SubSeq(bits, 1, n - c), k, t \div 2^c) \o FixedBits(t % 2^c, c)

\* Round to nearest, ties to even: the double nearest to the number whose
\* digits are `bits` (the first one 1), times 2^exp, plus a rest below one
\* unit of the last digit when `inexact`.
RoundToNearest(bits, exp, inexact) ==
    IF bits = <<>> THEN Zero
    ELSE IF Len(bits) <= Precision
    THEN [bits |-> bits \o Zeros(Precision - Len(bits)),
          exp |-> exp - (Precision - Len(bits))]
    ELSE LET kept == SubSeq(bits, 1, Precision)
             half == bits[Precision + 1] = 1
             more == inexact \/ \E i \in (Precision + 2)..Len(bits) : bits[i] = 1
             e == exp + (Len(bits) - Precision)
             up == Increment(kept)
         IN  IF ~(half /\ (more \/ kept[Precision] = 1)) THEN [bits |-> kept, exp |-> e]
             ELSE IF Len(up) = Precision THEN [bits |-> up, exp |-> e]
             ELSE [bits |-> SubSeq(up, 1, Precision), exp |-> e + 1]

\* p / q in doubles, for naturals p and q > 0.
FloatDivide(p, q) ==
    IF p = 0 THEN Zero
    ELSE IF p >= q
    THEN LET whole == NatBits(p \div q)
             n == Precision + 1 - Len(whole)
             fraction == FractionBits(p % q, q, n)
         IN  RoundToNearest(whole \o fraction.bits, -n, fraction.inexact)
    ELSE LET z == LeadingZeros(p, q)
             fraction == FractionBits(p * 2^z, q, Precision + 1)
         IN  RoundToNearest(fraction.bits, -(z + Precision + 1), fraction.inexact)

\* x * k in doubles, for a double x and a natural k.
FloatTimes(x, k) == RoundToNearest(TimesCarry(x.bits, k, 0), x.exp, FALSE)

\* The whole part of the number with the digits `bits` times 2^exp, for
\* C30's sensitivity to the rounding.
RoundTowardZero(bits, exp) ==
    IF exp >= 0 THEN BitsNat(bits) * 2^exp
    ELSE IF Len(bits) <= -exp THEN 0
    ELSE BitsNat(SubSeq(bits, 1, Len(bits) + exp))

\* The integer nearest to the number with the digits `bits` times 2^exp, the
\* even one of two that are equally near: Python's round() of a float and
\* MongoDB's $round of a double.
RoundHalfEven(bits, exp) ==
    IF exp >= 0 THEN BitsNat(bits) * 2^exp
    ELSE LET padded == Zeros(1 - exp - Len(bits)) \o bits
             n == Len(padded) + exp
             whole == BitsNat(SubSeq(padded, 1, n))
             half == padded[n + 1] = 1
             more == \E i \in (n + 2)..Len(padded) : padded[i] = 1
         IN  IF half /\ (more \/ whole % 2 = 1) THEN whole + 1 ELSE whole

\* ------------------- mongo: the deck, card and daily queries on filtered records
MaxInstant == 3         \* battleTime instants range over 1..MaxInstant
MaxOffset == 1          \* timezone offsets range over -MaxOffset..MaxOffset
DayLen == 2             \* instants of a calendar day

Instants == 1..MaxInstant
Timezones == (-MaxOffset)..MaxOffset
GameResults == {"Victory", "Defeat", "Draw"}
GameModes == {"Ladder", "Friendly"}

\* The reference decks of the stored records: named cards with a level and an
\* evolutionLevel, in either order; the first card id comes plain, one level
\* higher, or evolved.
QueryDecks ==
    {d \in StoredDecks :
        \A i \in 1..DeckSize :
            /\ d[i].name = "Knight" /\ d[i].level >= 1 /\ d[i].evolutionLevel >= 0
            /\ d[i].level = 1 \/ d[i].evolutionLevel = 0
            /\ d[i].id # 1 => d[i].level = 1 /\ d[i].evolutionLevel = 0}

\* A stored record as the deck and the card query read it.
DeckRecords == [gameResult : GameResults, gameMode : GameModes, deck : QueryDecks]

\* The sides of the stored records of the daily query: one participant with a
\* crown, one without the field, or two participants with one and two crowns.
DailySides ==
    {s \in Sides :
        \/ Len(s) = 1 /\ s[1].crowns = (IF s[1].has THEN 1 ELSE 0)
        \/ Len(s) = 2 /\ s[1].has /\ s[2].has /\ s[1].crowns = 1 /\ s[2].crowns = 2}

\* A stored record as the daily query reads it.
DailyRecords == [gameResult : GameResults, team : DailySides, opponent : DailySides]

\* The arrangements of the documents S that a $sort with the order Before may
\* return: documents the order does not tell apart come in any order.
Arrangements(S) ==
    {s \in [1..Cardinality(S) -> S] : \A i, j \in 1..Cardinality(S) : i # j => s[i] # s[j]}

SortedBy(S, Before(_, _)) ==
    {s \in Arrangements(S) : \A i, j \in DOMAIN s : i < j => Before(s[i], s[j])}

RECURSIVE Gcd(_, _)
Gcd(a, b) == IF b = 0 THEN a ELSE Gcd(b, a % b)

\* {"$cond": [{"$eq": [whole, 0]}, 0, {"$multiply": [{"$divide": [part, whole]}, 100]}]}:
\* the quotient times 100, kept as the fraction in lowest terms that the
\* double stands for.
WinRate(part, whole) ==
    IF whole = 0 THEN [num |-> 0, den |-> 1]
    ELSE LET g == Gcd(part * 100, whole)
         IN  [num |-> (part * 100) \div g, den |-> whole \div g]

\* The "meta" facet: {"$count": "totalBattles"} emits one document, or none
\* for no input.
Meta(stored) ==
    IF DOMAIN stored = {} THEN <<>>
    ELSE <<[totalBattles |-> Cardinality(DOMAIN stored)]>>

\* A totalBattles without the $ifNull, for C26's sensitivity to the default;
\* -1 stands for the null of a $first on no document.
TotalBattlesFirst(meta) ==
    IF meta = <<>> THEN -1 ELSE meta[1].totalBattles

\* {"$ifNull": [{"$first": "$meta.totalBattles"}, 0]}
TotalBattles(meta) ==
    IF meta = <<>> THEN 0 ELSE meta[1].totalBattles

\* The $group of the "decks" facet with its $project: the document of the
\* group with _id id.  stored maps the battleTime of each filtered record to
\* the record.
DeckGroup(stored, id) ==
    LET members == {t \in DOMAIN stored : GroupId(stored[t].deck) = id}
        count == Cardinality(members)
        wins == Cardinality({t \in members : stored[t].gameResult = "Victory"})
    IN  [deck |-> id, count |-> count, wins |-> wins,
         winRate |-> WinRate(wins, count),
         firstSeen |-> CHOOSE t \in members : \A u \in members : t <= u,
         lastSeen |-> CHOOSE t \in members : \A u \in members : t >= u,
         modes |-> {stored[t].gameMode : t \in members}]

DeckGroups(stored) == {DeckGroup(stored, GroupId(stored[t].deck)) : t \in DOMAIN stored}

\* {"$sort": {"count": -1, "lastSeen": -1}}
DeckSort(g, h) ==
    \/ g.count > h.count
    \/ g.count = h.count /\ g.lastSeen >= h.lastSeen

\* get_decks_win_percentage on the filtered records: the documents it may
\* return.  The $facet emits one document whatever its input.
GetDecksWinPercentage(stored) ==
    {[decks |-> l, totalBattles |-> TotalBattles(Meta(stored))] :
        l \in SortedBy(DeckGroups(stored), DeckSort)}

\* {"$unwind": "$deckCards"}: one document per record and card position.
Unwind(stored) == {<<t, i>> : t \in DOMAIN stored, i \in 1..DeckSize}

\* The _id of the $group of the "cards" facet.
CardId(stored, u) ==
    LET c == DeckCards(stored[u[1]].deck)[u[2]]
    IN  [id |-> c.id, name |-> c.name, evolutionLevel |-> c.evolutionLevel]

\* The $group of the "cards" facet with its $project.
CardGroup(stored, id) ==
    LET uses == {u \in Unwind(stored) : CardId(stored, u) = id}
        usage == Cardinality(uses)
        wins == Cardinality({u \in uses : stored[u[1]].gameResult = "Victory"})
    IN  [card |-> id, usage |-> usage, wins |-> wins, winRate |-> WinRate(wins, usage)]

CardGroups(stored) == {CardGroup(stored, CardId(stored, u)) : u \in Unwind(stored)}

\* {"$sort": {"usage": -1}}
CardSort(g, h) == g.usage >= h.usage

\* get_cards_win_percentage on the filtered records.
GetCardsWinPercentage(stored) ==
    {[cards |-> l, totalBattles |-> TotalBattles(Meta(stored))] :
        l \in SortedBy(CardGroups(stored), CardSort)}

\* {"$dateTrunc": {"date": "$battleTime", "unit": "day", "timezone": tz}}: the
\* instant of the local midnight before battleTime.
DateTrunc(date, timezone) == ((date + timezone) \div DayLen) * DayLen - timezone

\* {"$dateToString": {"format": "%Y-%m-%d", "date": d, "timezone": tz}}: the
\* local calendar day of the instant, as its number.
DateToString(date, timezone) == (date + timezone) \div DayLen

RECURSIVE Reduce(_, _)
\* The $reduce with initialValue value that keeps the greater of $$this and
\* $$value.
Reduce(input, value) ==
    IF input = <<>> THEN value
    ELSE Reduce(Tail(input), IF Head(input) > value THEN Head(input) ELSE value)

\* A crownsForSafe that adds the crowns of the participants up, for C24's
\* sensitivity to the maximum.
CrownsAdded(side) ==
    IF Len(side) = 1 THEN CrownsOf(side[1]) ELSE CrownsOf(side[1]) + CrownsOf(side[2])

\* crownsForSafe, crownsAgainstSafe: the $map with {"$ifNull": ["$$t.crowns", 0]}
\* and the $reduce over it.
CrownsSafe(side) == Reduce([i \in DOMAIN side |-> CrownsOf(side[i])], 0)

RECURSIVE SumOver(_, _)
\* {"$sum": field} over the documents S of a group, field[t] the value of t.
SumOver(field, S) ==
    IF S = {} THEN 0
    ELSE LET t == CHOOSE t \in S : TRUE
         IN  field[t] + SumOver(field, S \ {t})

\* {"$round": [{"$multiply": [{"$divide": [victories, battles]}, 100]}, 2]}, in
\* hundredths: the quotient and the product are doubles, and $round takes
\* the product to the nearest hundredth, ties to the even one.
DailyWinRate(victories, total) ==
    IF total = 0 THEN 0
    ELSE LET percent == FloatTimes(FloatDivide(victories, total), 100)
         IN  RoundHalfEven(TimesCarry(percent.bits, 100, 0), percent.exp)

\* The $group per local day with its $project: the document of the group
\* with _id day.  The elixirLeaked sum is left out.
DayGroup(stored, timezone, day) ==
    LET members == {t \in DOMAIN stored : DateTrunc(t, timezone) = day}
        Flag(result) == [t \in members |-> IF stored[t].gameResult = result THEN 1 ELSE 0]
        victories == SumOver(Flag("Victory"), members)
        total == SumOver([t \in members |-> 1], members)
    IN  [date |-> DateToString(day, timezone),
         battles |-> total,
         victories |-> victories,
         defeats |-> SumOver(Flag("Defeat"), members),
         draws |-> SumOver(Flag("Draw"), members),
         crownsFor |-> SumOver([t \in members |-> CrownsSafe(stored[t].team)], members),
         crownsAgainst |->
             SumOver([t \in members |-> CrownsSafe(stored[t].opponent)], members),
         winRate |-> DailyWinRate(victories, total)]

DayGroups(stored, timezone) ==
    {DayGroup(stored, timezone, DateTrunc(t, timezone)) : t \in DOMAIN stored}

\* {"$sort": {"date": 1}}
DaySort(g, h) == g.date <= h.date

\* get_daily_stats on the filtered records.
GetDailyStats(stored, timezone) ==
    {[daily |-> result,
      totalBattles |-> SumOver([i \in DOMAIN result |-> result[i].battles], DOMAIN result)] :
        result \in SortedBy(DayGroups(stored, timezone), DaySort)}

\* A query of the API runs on the filtered records.
DeckQuery ==
    /\ fnPc = "call" /\ fnIn.query = "decks"
    /\ fnPc' = "done"
    /\ fnOut' \in GetDecksWinPercentage(fnIn.stored)
    /\ UNCHANGED <<progVars, fnIn>>

CardQuery ==
    /\ fnPc = "call" /\ fnIn.query = "cards"
    /\ fnPc' = "done"
    /\ fnOut' \in GetCardsWinPercentage(fnIn.stored)
    /\ UNCHANGED <<progVars, fnIn>>

DailyQuery ==
    /\ fnPc = "call" /\ fnIn.query = "daily"
    /\ fnPc' = "done"
    /\ fnOut' \in GetDailyStats(fnIn.stored, fnIn.timezone)
    /\ UNCHANGED <<progVars, fnIn>>

\* The filtered records of a player: at most one per battleTime.
InitQueries ==
    /\ InitProgram
    /\ fnPc = "call"
    /\ \E ts \in SUBSET Instants :
          \/ \E s \in [ts -> DeckRecords], q \in {"decks", "cards"} :
                 fnIn = [query |-> q, stored |-> s, timezone |-> 0]
          \/ \E s \in [ts -> DailyRecords], tz \in Timezones :
                 fnIn = [query |-> "daily", stored |-> s, timezone |-> tz]
    /\ fnOut = "none"

NextQueries == DeckQuery \/ CardQuery \/ DailyQuery

SpecQueries == InitQueries /\ [][NextQueries]_vars

\* ------------------------------- mongo: match_tag_date_mode_range_stage
MaxDate == 2            \* calendar days of a request range over 0..MaxDate

Dates == 0..MaxDate
MatchInstants == (-MaxOffset)..((MaxDate + 1) * DayLen + MaxOffset)

\* A stored record as the $match reads it.
MatchRecords ==
    [referencePlayerTag : TrackedTags, battleTime : MatchInstants, gameMode : GameModes]

\* The parameters of a query; no game modes is the empty set.
MatchParams ==
    [player_tag : TrackedTags, start_date : Dates, end_date : Dates,
     game_modes : SUBSET GameModes, timezone : Timezones]

\* utils.check_valid_date_range: TRUE when it raises the ValueError.
CheckValidDateRangeRaises(start_date, end_date) == start_date > end_date

\* datetime.combine(d, time(0, 0), tzinfo=tz): midnight of day d on the clock
\* of the timezone.
Combine(d, timezone) == [clock |-> d * DayLen, tzinfo |-> timezone]

\* A conversion that reads the local clock as UTC, for C25's sensitivity to
\* the timezone.
AsTimezoneNaive(dt) == dt.clock

\* dt.astimezone(timezone.utc): the instant at which the timezone's clock
\* shows dt.
AsTimezoneUtc(dt) == dt.clock - dt.tzinfo

\* match_tag_date_mode_range_stage: the $match document.
MatchTagDateModeRangeStage(player_tag, start_date, end_date, game_modes, timezone) ==
    LET start_local == Combine(start_date, timezone)
        end_local == Combine(end_date + 1, timezone)
        start_utc == AsTimezoneUtc(start_local)
        end_utc == AsTimezoneUtc(end_local)
    IN  [referencePlayerTag |-> player_tag,
         battleTime |-> [gte |-> start_utc, lt |-> end_utc],
         gameMode |-> IF game_modes # {} THEN [has |-> TRUE, in |-> game_modes]
                      ELSE [has |-> FALSE, in |-> {}]]

\* The $match stage lets the document through.
Matches(doc, match) ==
    /\ doc.referencePlayerTag = match.referencePlayerTag
    /\ doc.battleTime >= match.battleTime.gte
    /\ doc.battleTime < match.battleTime.lt
    /\ match.gameMode.has => doc.gameMode \in match.gameMode.in

\* A query meets a stored record: the check of the range, then the $match.
MatchStep ==
    /\ fnPc = "call"
    /\ fnPc' = "done"
    /\ fnOut' =
          IF CheckValidDateRangeRaises(fnIn.params.start_date, fnIn.params.end_date)
          THEN [raised |-> TRUE, included |-> FALSE]
          ELSE [raised |-> FALSE,
                included |->
                    Matches(fnIn.doc,
                            MatchTagDateModeRangeStage(fnIn.params.player_tag,
                                                       fnIn.params.start_date,
                                                       fnIn.params.end_date,
                                                       fnIn.params.game_modes,
                                                       fnIn.params.timezone))]
    /\ UNCHANGED <<progVars, fnIn>>

InitMatch ==
    /\ InitProgram
    /\ fnPc = "call"
    /\ fnIn \in [doc : MatchRecords, params : MatchParams]
    /\ fnOut = "none"

SpecMatch == InitMatch /\ [][MatchStep]_vars

\* ------------------------------------- clean.py: the card levels of a match
\* The card lists of a match are objects: a record of the cleaned log refers
\* to its lists, and adjust_card_levels changes a list in place for every
\* record that refers to it.  A reference names the list by where it was made:
\* <<0, side, k, field, i>> is a list of the fetched match (of participant k
\* of the side; of the participant's round i for the field "rounds"), and
\* <<r, side, k, field, 0>> is the list copy.deepcopy made for round r.
Rarities == {"common", "rare", "epic", "legendary", "champion"}

\* A card of the fetched match, as far as adjust_card_levels reads it.
RawCards == [level : 1..MaxLevel, rarity : Rarities]

NoList == <<-1, "none", 0, "none", 0>>

\* The fetched participants: one deck card; the supportCards field absent, or
\* with one card of the first level; for a duellist, the decks of the rounds.
SupportLists ==
    {[has |-> FALSE, list |-> <<>>]}
        \cup {[has |-> TRUE, list |-> <<c>>] : c \in {d \in RawCards : d.level = 1}}

RoundLists(cards) == UNION {[1..n -> {<<c>> : c \in cards}] : n \in 1..MaxRounds}

PlainFighters ==
    [cards : {<<c>> : c \in RawCards}, supportCards : SupportLists, rounds : {<<>>}]

SecondFighters ==
    {f \in PlainFighters :
        /\ f.supportCards.has /\ f.supportCards.list[1].rarity = "rare"
        /\ f.cards[1] \in {[level |-> 1, rarity |-> "common"],
                           [level |-> MaxLevel, rarity |-> "champion"]}}

Duellists ==
    [cards : {<<[level |-> 1, rarity |-> "common"]>>}, supportCards : SupportLists,
     rounds : RoundLists(RawCards)]

OpposingDuellists ==
    {f \in Duellists :
        /\ f.supportCards.has => f.supportCards.list[1].rarity = "epic"
        /\ \A i \in DOMAIN f.rounds :
              f.rounds[i][1] \in {[level |-> 1, rarity |-> "rare"],
                                  [level |-> MaxLevel, rarity |-> "epic"]}}

PlainSides ==
    {<<f>> : f \in PlainFighters}
        \cup {<<f, g>> : f \in {h \in PlainFighters : h.cards[1].level = 1 /\ h.supportCards.has},
                         g \in SecondFighters}

LevelMatches ==
    [team : PlainSides, opponent : PlainSides]
        \cup [team : {<<f>> : f \in Duellists}, opponent : {<<f>> : f \in OpposingDuellists}]

\* Offsets of 0 for every rarity, for C29's sensitivity to the offsets.
RarityLevelOffsetsNone == [r \in Rarities |-> 0]

\* rarity_level_offsets
RarityLevelOffsets ==
    [common |-> 0, rare |-> 2, epic |-> 5, legendary |-> 8, champion |-> 10]

\* adjust_card_levels(cards) raises: the KeyError of a rarity that is no key of
\* the offsets, as of a card whose rarity was removed before.
AdjustCardLevelsRaises(cards) ==
    \E i \in DOMAIN cards : cards[i].rarity \notin DOMAIN RarityLevelOffsets

\* adjust_card_levels: the list after it.
AdjustCardLevels(cards) ==
    [i \in DOMAIN cards |->
        [level |-> cards[i].level + RarityLevelOffsets[cards[i].rarity],
         rarity |-> cards[i].rarity]]

\* remove_unnecessary_card_fields: the list after it; the rarity is popped.
RemoveUnnecessaryCardFields(cards) ==
    [i \in DOMAIN cards |-> [level |-> cards[i].level, rarity |-> "popped"]]

\* The list a reference of the fetched match, or of a deep copy of it, holds
\* before the cleaning.
FetchedList(battle, ref) ==
    LET player == battle[ref[2]][ref[3]]
    IN  IF ref[4] = "cards" THEN player.cards
        ELSE IF ref[4] = "supportCards" THEN player.supportCards.list
        ELSE player.rounds[ref[5]]

\* player.get("cards"), player.get("supportCards") of a participant of the
\* record made for round r of the match (r = 0: the match itself).
ListsOf(battle, r, side, k) ==
    [cards |-> <<r, side, k, "cards", 0>>,
     supportCards |-> IF battle[side][k].supportCards.has
                      THEN <<r, side, k, "supportCards", 0>>
                      ELSE NoList]

\* The record a match that is no duel becomes: the match itself.
PlainRefs(battle) ==
    [team |-> [k \in DOMAIN battle.team |-> ListsOf(battle, 0, "team", k)],
     opponent |-> [k \in DOMAIN battle.opponent |-> ListsOf(battle, 0, "opponent", k)]]

\* extract_duel_battles, round r: a deep copy of the match, with player #0's
\* cards set to the round's list of the fetched match.
DuelRefs(battle, r) ==
    LET Side(side) ==
            [k \in DOMAIN battle[side] |->
                IF k = 1
                THEN [ListsOf(battle, r, side, k) EXCEPT !.cards = <<0, side, 1, "rounds", r>>]
                ELSE ListsOf(battle, r, side, k)]
    IN  [team |-> Side("team"), opponent |-> Side("opponent")]

\* The records clean_battle_log_list makes of the match, before it cleans them.
RecordRefs(battle) ==
    IF battle.team[1].rounds # <<>>
    THEN LET n == IF Len(battle.team[1].rounds) < Len(battle.opponent[1].rounds)
                  THEN Len(battle.team[1].rounds)
                  ELSE Len(battle.opponent[1].rounds)
         IN  [r \in 1..n |-> DuelRefs(battle, r)]
    ELSE <<PlainRefs(battle)>>

\* clean_battle: the lists it hands to adjust_card_levels and
\* remove_unnecessary_card_fields, in its order: for every player of
\* team + opponent the cards, then the supportCards.
RECURSIVE PlayerLists(_)
PlayerLists(fighters) ==
    IF fighters = <<>> THEN <<>>
    ELSE <<Head(fighters).cards, Head(fighters).supportCards>>
             \o PlayerLists(Tail(fighters))

CleanBattle(record) == PlayerLists(record.team \o record.opponent)

RECURSIVE CleanOrder(_)
CleanOrder(records) ==
    IF records = <<>> THEN <<>>
    ELSE CleanBattle(Head(records)) \o CleanOrder(Tail(records))

\* The lists after adjust_card_levels and remove_unnecessary_card_fields ran
\* on the lists of refs in turn, or the exception one of them raised: the
\* TypeError of `for card in None`, the KeyError of a rarity.
RECURSIVE CleanLists(_, _)
CleanLists(heap, refs) ==
    IF refs = <<>> THEN [raised |-> FALSE, heap |-> heap]
    ELSE IF Head(refs) = NoList \/ AdjustCardLevelsRaises(heap[Head(refs)])
         THEN [raised |-> TRUE, heap |-> heap]
    ELSE CleanLists([heap EXCEPT ![Head(refs)] = RemoveUnnecessaryCardFields(AdjustCardLevels(@))],
                    Tail(refs))

\* clean_battle_log_list on a log of the one match, as far as the card levels
\* go: the produced records with their lists, or the exception.
CleanLevels(battle) ==
    LET records == RecordRefs(battle)
        order == CleanOrder(records)
        refs == {order[i] : i \in DOMAIN order} \ {NoList}
        cleaned == CleanLists([ref \in refs |-> FetchedList(battle, ref)], order)
        Lists(player) == [cards |-> cleaned.heap[player.cards],
                          supportCards |-> cleaned.heap[player.supportCards]]
    IN  IF cleaned.raised THEN [raised |-> TRUE, records |-> <<>>]
        ELSE [raised |-> FALSE,
              records |->
                  [r \in DOMAIN records |->
                      [team |-> [k \in DOMAIN records[r].team |-> Lists(records[r].team[k])],
                       opponent |->
                           [k \in DOMAIN records[r].opponent |->
                               Lists(records[r].opponent[k])]]]]

CleanLevelsStep ==
    /\ fnPc = "call"
    /\ fnPc' = "done"
    /\ fnOut' = CleanLevels(fnIn)
    /\ UNCHANGED <<progVars, fnIn>>

InitLevels ==
    /\ InitProgram
    /\ fnPc = "call"
    /\ fnIn \in LevelMatches
    /\ fnOut = "none"

SpecLevels == InitLevels /\ [][CleanLevelsStep]_vars

\* ------------------------------------- redis_service: set_redis_json, jitter_ttl
MaxTtl == 80            \* base TTLs range over -1..MaxTtl
Grain == 10             \* values of the random factor per percent
Pct == 10               \* jitter_ttl's pct = 0.10, in percent
MinTtl == 60            \* jitter_ttl's min_ttl

Ttls == (-1)..MaxTtl

\* random.uniform(1 - pct, 1 + pct): the double nearest to f / (100 * Grain).
RandomFactors == ((100 - Pct) * Grain)..((100 + Pct) * Grain)
RandomFactor(f) == FloatDivide(f, 100 * Grain)

\* int(round(ttl * random_factor)): the product is a double, round() takes
\* it to the nearest integer.
Jittered(ttl, f) ==
    LET product == FloatTimes(RandomFactor(f), ttl)
    IN  RoundHalfEven(product.bits, product.exp)

\* jitter_ttl raises the ValueError.
JitterTtlRaises(ttl) == ttl <= 0

\* jitter_ttl(ttl) with the random factor of f: `jittered`, and what is
\* returned.
JitterTtl(ttl, f) ==
    LET jittered == Jittered(ttl, f)
    IN  [jittered |-> jittered,
         returned |-> IF MinTtl > jittered THEN MinTtl ELSE jittered]

\* set_redis_json: jitter_ttl, then the setex with the jittered TTL.
SetRedisJson(ttl, f) ==
    IF JitterTtlRaises(ttl)
    THEN [raised |-> TRUE, jittered |-> 0, setex |-> FALSE, ttl |-> 0]
    ELSE [raised |-> FALSE, jittered |-> JitterTtl(ttl, f).jittered, setex |-> TRUE,
          ttl |-> JitterTtl(ttl, f).returned]

SetRedisJsonStep ==
    /\ fnPc = "call"
    /\ fnPc' = "done"
    /\ fnOut' = SetRedisJson(fnIn.ttl, fnIn.f)
    /\ UNCHANGED <<progVars, fnIn>>

InitTtl ==
    /\ InitProgram
    /\ fnPc = "call"
    /\ fnIn \in [ttl : Ttls, f : RandomFactors]
    /\ fnOut = "none"

SpecTtl == InitTtl /\ [][SetRedisJsonStep]_vars

\* ------------------------------------------- main(): the sleep after a cycle
MaxElapsed == 1000      \* elapsed cycle times range over 0..MaxElapsed seconds
REQUEST_CYCLE_DURATION == 900

\* A sleep_time without the `if sleep_time <= 0` arm, for C31's sensitivity
\* to it.
SleepTimeUnchecked(elapsed_time) == REQUEST_CYCLE_DURATION - elapsed_time

\* main(): sleep_time as it is handed to asyncio.sleep at the end of a cycle
\* that ran its players.
SleepTime(elapsed_time) ==
    LET sleep_time == REQUEST_CYCLE_DURATION - elapsed_time
    IN  IF sleep_time <= 0 THEN 0 ELSE sleep_time

\* The end of a cycle that took fnIn seconds.
CycleEndStep ==
    /\ fnPc = "call"
    /\ fnPc' = "done"
    /\ fnOut' = SleepTime(fnIn)
    /\ UNCHANGED <<progVars, fnIn>>

InitSleep ==
    /\ InitProgram
    /\ fnPc = "call"
    /\ fnIn \in 0..MaxElapsed
    /\ fnOut = 0

SpecSleep == InitSleep /\ [][CycleEndStep]_vars

\* ------------------------------------- core/validate.py: validate_game_modes
MaxModes == 2           \* game modes of one request

\* The names a request can carry: the modes of the stored records and one
\* that no record has.
ModeNames == GameModes \cup {"Unknown"}
ModeLists == UNION {[1..n -> ModeNames] : n \in 0..MaxModes}

\* The loop of validate_game_modes from element i on: a mode goes to filtered
\* when it is in the cache and was not seen before.
RECURSIVE Filtered(_, _, _, _)
Filtered(game_modes, modes_set, i, acc) ==
    IF i > Len(game_modes) THEN acc
    ELSE LET m == game_modes[i]
             seen == {acc[j] : j \in DOMAIN acc}
         IN  Filtered(game_modes, modes_set, i + 1,
                      IF m \in modes_set /\ m \notin seen THEN Append(acc, m) ELSE acc)

\* validate_game_modes, all_game_modes being the names the cache entry holds
\* (none when there is no entry): the list handed to the query.
ValidateGameModes(all_game_modes, game_modes) ==
    IF game_modes = <<>> THEN game_modes
    ELSE IF all_game_modes = {} THEN game_modes
    ELSE LET modes_set == all_game_modes
             filtered == Filtered(game_modes, modes_set, 1, <<>>)
         IN  IF Len(filtered) = Cardinality(modes_set) THEN <<>> ELSE filtered

\* deck_percentage_stats for the player of one record, with a window that
\* holds every day.  fnIn is what the handler meets: doc, the record, and
\* stored, whether the collection holds it; game_modes, the list of the
\* request; all_game_modes, the names in the allGameModes entry of the cache
\* (none when there is no entry); decks, for every gameModes parameter of a
\* key what the playerDecks entry under it holds (NoEntry, statistics without
\* the record, statistics with it).  fnOut holds the handler's locals:
\* game_modes, the validated list; key; result, the statistics of the query;
\* and what it answered: status (0: not yet) and included, the statistics of
\* the answer count the record.
StatsEntry(counted) == IF counted THEN 2 ELSE 1
StatsIdle == [game_modes |-> <<>>, key |-> <<>>, result |-> NoEntry,
              status |-> 0, included |-> FALSE]

\* The $match of the request lets the record through.
StatsMatches(doc, validated_game_modes) ==
    Matches(doc,
            MatchTagDateModeRangeStage(
                doc.referencePlayerTag, 0, MaxDate,
                {validated_game_modes[i] : i \in DOMAIN validated_game_modes}, 0))

\* The `except Exception` arm: HTTP 500, no statistics.
StatsFailed ==
    /\ fnPc' = "done"
    /\ fnOut' = [fnOut EXCEPT !.status = 500]

\* The handler is called; validate_game_modes returns an empty list as it is.
StatsRequest ==
    /\ fnPc = "idle"
    /\ fnPc' = IF fnIn.game_modes = <<>> THEN "key" ELSE "modes_key"
    /\ fnOut' = [StatsIdle EXCEPT !.game_modes = fnIn.game_modes]
    /\ UNCHANGED <<progVars, fnIn>>

\* validate_game_modes: build_redis_key returned the allGameModes key or
\* raised.
StatsModesKey(ok) ==
    /\ fnPc = "modes_key"
    /\ IF ok THEN fnPc' = "modes_get" /\ UNCHANGED fnOut ELSE StatsFailed
    /\ UNCHANGED <<progVars, fnIn>>

\* validate_game_modes: get_redis_json returned the entry or raised; the
\* list is validated against the entry read now.
StatsModesGet(io) ==
    LET got == GetRedisJson(io, IF fnIn.all_game_modes = {} THEN NoEntry ELSE 1)
    IN  /\ fnPc = "modes_get"
        /\ IF got.exc # "none" THEN StatsFailed
           ELSE /\ fnPc' = "key"
                /\ fnOut' = [fnOut EXCEPT !.game_modes =
                                ValidateGameModes(
                                    IF got.value = NoEntry THEN {} ELSE fnIn.all_game_modes,
                                    fnIn.game_modes)]
        /\ UNCHANGED <<progVars, fnIn>>

\* build_redis_key returned the playerDecks key of the params, or raised.
StatsKey(ok) ==
    /\ fnPc = "key"
    /\ IF ok THEN fnPc' = "get" /\ fnOut' = [fnOut EXCEPT !.key = fnOut.game_modes]
       ELSE StatsFailed
    /\ UNCHANGED <<progVars, fnIn>>

\* get_redis_json returned or raised: cached statistics are the answer, and
\* the query does not run.
StatsGet(io) ==
    LET got == GetRedisJson(io, fnIn.decks[fnOut.key])
    IN  /\ fnPc = "get"
        /\ IF got.exc # "none" THEN StatsFailed
           ELSE IF got.value # NoEntry
           THEN /\ fnPc' = "done"
                /\ fnOut' = [fnOut EXCEPT !.status = 200,
                                           !.included = (got.value = StatsEntry(TRUE))]
           ELSE fnPc' = "aggregate" /\ UNCHANGED fnOut
        /\ UNCHANGED <<progVars, fnIn>>

\* get_decks_win_percentage returned or raised.  What it returns is a dict
\* with `decks` and `totalBattles` also when the $match lets no record
\* through, so `if not decks` never takes the 404: statistics of no record
\* are stored and answered as any other.
StatsAggregate(ok) ==
    LET counted == fnIn.stored /\ StatsMatches(fnIn.doc, fnOut.game_modes)
    IN  /\ fnPc = "aggregate"
        /\ IF ~ok THEN StatsFailed
           ELSE /\ fnPc' = "setex"
                /\ fnOut' = [fnOut EXCEPT !.result = StatsEntry(counted)]
        /\ UNCHANGED <<progVars, fnIn>>

\* set_redis_json stored the statistics under the key, or raised.
StatsSet(ok) ==
    /\ fnPc = "setex"
    /\ IF ok
       THEN /\ fnPc' = "done"
            /\ fnOut' = [fnOut EXCEPT !.status = 200,
                                       !.included = (fnOut.result = StatsEntry(TRUE))]
            /\ fnIn' = [fnIn EXCEPT !.decks[fnOut.key] = fnOut.result]
       ELSE StatsFailed /\ UNCHANGED fnIn
    /\ UNCHANGED progVars

\* The client has its answer.
StatsEnd ==
    /\ fnPc = "done"
    /\ fnPc' = "idle"
    /\ fnOut' = StatsIdle
    /\ UNCHANGED <<progVars, fnIn>>

\* The scraper stores the record.
StatsStore ==
    /\ ~fnIn.stored
    /\ fnIn' = [fnIn EXCEPT !.stored = TRUE]
    /\ UNCHANGED <<progVars, fnPc, fnOut>>

\* The allGameModes entry is written anew, or its TTL runs out.
StatsModesChange(names_now) ==
    /\ names_now # fnIn.all_game_modes
    /\ fnIn' = [fnIn EXCEPT !.all_game_modes = names_now]
    /\ UNCHANGED <<progVars, fnPc, fnOut>>

\* The TTL of a playerDecks entry runs out.
StatsExpire(k) ==
    /\ fnIn.decks[k] # NoEntry
    /\ fnIn' = [fnIn EXCEPT !.decks[k] = NoEntry]
    /\ UNCHANGED <<progVars, fnPc, fnOut>>

InitModes ==
    /\ InitProgram
    /\ fnPc = "idle"
    /\ \E d \in MatchRecords, l \in ModeLists :
          fnIn = [doc |-> d, stored |-> FALSE, game_modes |-> l, all_game_modes |-> {},
                  decks |-> [k \in ModeLists |-> NoEntry]]
    /\ fnOut = StatsIdle

NextModes ==
    \/ StatsRequest
    \/ \E ok \in BOOLEAN : StatsModesKey(ok)
    \/ \E io \in ReadResults : StatsModesGet(io)
    \/ \E ok \in BOOLEAN : StatsKey(ok)
    \/ \E io \in ReadResults : StatsGet(io)
    \/ \E ok \in BOOLEAN : StatsAggregate(ok)
    \/ \E ok \in BOOLEAN : StatsSet(ok)
    \/ StatsEnd
    \/ StatsStore
    \/ \E names_now \in SUBSET GameModes : StatsModesChange(names_now)
    \/ \E k \in ModeLists : StatsExpire(k)

SpecModes == InitModes /\ [][NextModes]_vars

\* --------------------------------------- routers/auth.py: the chain of tokens
\* One client, the server's clock and the wordle sessions of the cache.
\* fnIn is the server's side: now, the clock in ticks of TickMinutes; zone,
\* what the local clock of the process is ahead of UTC; secret, whether
\* settings has a JWT_SECRET; sessions, for every wordle id the entry of the
\* cache under its key (held: there is one; whole: it has its two fields;
\* guesses).  fnOut is the client's side: had, the types of token it was
\* ever handed; held, the expiry of the token of a type it was handed last;
\* req, its request to /auth/verify_wordle in flight (token, the captcha
\* token it carries; id, its wordle_id; at, the clock when the handler
\* checked the token; guesses and solved, what the handler has made of the
\* guess; exp, the expiry of the wordle token it has created).
MaxNow == 2             \* the clock ranges over 0..MaxNow
MaxZone == 2            \* the local clock is -MaxZone..MaxZone ticks ahead of UTC
TickMinutes == 30       \* minutes of one tick of the clock
MAX_WORDLE_GUESSES == 2 \* settings.MAX_WORDLE_GUESSES
MaxWordleIds == 2       \* wordle ids with a session at one time
ExpiresMinutes == 30    \* create_access_token(expires_minutes=30)

TokenTypes == {"captcha", "wordle", "security", "auth"}
Zones == (-MaxZone)..MaxZone
Guesses == {"right", "wrong", "invalid"}
WordleIds == 1..MaxWordleIds
NoTokens == [t \in TokenTypes |-> 0]
NoSession == [held |-> FALSE, whole |-> TRUE, guesses |-> 0]
NoRequest == [token |-> [type |-> "none", exp |-> 0, signed |-> FALSE], id |-> 0,
              at |-> 0, guesses |-> 0, solved |-> FALSE, exp |-> 0]

\* The authentication flow: the step whose token a step asks for.
StepBefore(type) ==
    IF type = "auth" THEN "security"
    ELSE IF type = "security" THEN "wordle"
    ELSE "captcha"

\* settings.JWT_SECRET is read by create_access_token and by
\* validate_access_token: TRUE when the attribute is not there and the read
\* raises, which ends the handler with nothing issued.
JwtSecretRaises == ~fnIn.secret

\* create_access_token: the claims of the token, signed with JWT_SECRET.  The
\* expiry is datetime.now(), the local clock without its zone, which the
\* encoding reads as UTC, plus expires_minutes.
CreateAccessToken(type) ==
    [type |-> type,
     exp |-> fnIn.now + fnIn.zone + ExpiresMinutes \div TickMinutes,
     signed |-> TRUE]

\* What the client can send as a token: a token it holds, or one that the
\* server did not sign.
Presentable ==
    {[type |-> t, exp |-> fnOut.held[t], signed |-> TRUE] :
        t \in {u \in TokenTypes : fnOut.had[u]}}
    \cup {[type |-> t, exp |-> MaxNow + 1, signed |-> FALSE] : t \in TokenTypes}

\* validate_access_token: jwt.decode checks the signature and the expiry
\* against the clock in UTC, then the type is compared.
ValidateAccessToken(token, type) ==
    /\ token.signed
    /\ token.exp >= fnIn.now
    /\ token.type = type

\* The client is handed a token of the type with the expiry.
Issue(type, exp) ==
    fnOut' = [fnOut EXCEPT !.held[type] = exp, !.had[type] = TRUE]

\* POST /auth/verify_captcha: the text is found or not, the answer is right
\* or wrong; create_access_token raises without a JWT_SECRET.
GetCaptchaToken(found, right) ==
    /\ IF found /\ right /\ ~JwtSecretRaises
       THEN Issue("captcha", CreateAccessToken("captcha").exp)
       ELSE UNCHANGED fnOut
    /\ UNCHANGED <<progVars, fnPc, fnIn>>

\* A wordle id that can stand for a new uuid4: it has no session and no
\* request in flight carries it.
Unused(wordle_id) ==
    /\ ~fnIn.sessions[wordle_id].held
    /\ fnPc # "idle" => fnOut.req.id # wordle_id

\* GET /auth/wordle_id: a session with no guess made is set under the key of
\* a new wordle_id (the first unused one), or build_redis_key or
\* set_redis_json raised.
GetWordleId(wordle_id, ok) ==
    /\ Unused(wordle_id)
    /\ \A other \in WordleIds : Unused(other) => wordle_id <= other
    /\ fnIn' = IF ok
               THEN [fnIn EXCEPT !.sessions[wordle_id] =
                        [held |-> TRUE, whole |-> TRUE, guesses |-> 0]]
               ELSE fnIn
    /\ UNCHANGED <<progVars, fnPc, fnOut>>

\* The TTL of a session runs out.
SessionExpire(wordle_id) ==
    /\ fnIn.sessions[wordle_id].held
    /\ fnIn' = [fnIn EXCEPT !.sessions[wordle_id] = NoSession]
    /\ UNCHANGED <<progVars, fnPc, fnOut>>

\* Another writer leaves an entry without `guesses` or `solution` under the
\* key of a session.
SessionForeign(wordle_id) ==
    /\ fnIn.sessions[wordle_id].held /\ fnIn.sessions[wordle_id].whole
    /\ fnIn' = [fnIn EXCEPT !.sessions[wordle_id] =
                    [held |-> TRUE, whole |-> FALSE, guesses |-> 0]]
    /\ UNCHANGED <<progVars, fnPc, fnOut>>

\* POST /auth/verify_wordle is called with a captcha_token and a wordle_id:
\* the token is checked before anything else.
GetWordleTokenValidate(captcha_token, wordle_id) ==
    /\ fnPc = "idle"
    /\ IF ~JwtSecretRaises /\ ValidateAccessToken(captcha_token, "captcha")
       THEN /\ fnPc' = "session"
            /\ fnOut' = [fnOut EXCEPT !.req =
                            [NoRequest EXCEPT !.token = captcha_token,
                                              !.id = wordle_id, !.at = fnIn.now]]
       ELSE UNCHANGED <<fnPc, fnOut>>
    /\ UNCHANGED <<progVars, fnIn>>

\* get_wordle_challenge_from_cache returned the session of the request's
\* wordle_id with its key, returned None or raised, and the handler went on to its set_redis_json: 404 without a
\* session, 500 for a session without its fields, 429 when the guesses are
\* used up, 422 for a guess that is no word; a guess that is the solution
\* makes the wordle token, with the clock of now.
GetWordleTokenSession(read, guess) ==
    LET session == fnIn.sessions[fnOut.req.id]
        ends == \/ read # "session"
                \/ ~session.whole
                \/ session.guesses >= MAX_WORDLE_GUESSES
                \/ guess = "invalid"
    IN  /\ fnPc = "session"
        /\ read = "session" => session.held
        /\ IF ends
           THEN fnPc' = "idle" /\ fnOut' = [fnOut EXCEPT !.req = NoRequest]
           ELSE /\ fnPc' = "set"
                /\ fnOut' = [fnOut EXCEPT !.req.guesses = session.guesses + 1,
                                           !.req.solved = (guess = "right"),
                                           !.req.exp = IF guess = "right"
                                                       THEN CreateAccessToken("wordle").exp
                                                       ELSE 0]
        /\ UNCHANGED <<progVars, fnIn>>

\* set_redis_json wrote the session back, with one guess more, under the
\* key it was read from, and the client has its answer, with the wordle
\* token when the guess was the solution; or it raised, and the client has
\* a 500.
GetWordleTokenSet(ok) ==
    /\ fnPc = "set"
    /\ fnPc' = "idle"
    /\ fnIn' = IF ok
               THEN [fnIn EXCEPT !.sessions[fnOut.req.id] =
                        [held |-> TRUE, whole |-> TRUE, guesses |-> fnOut.req.guesses]]
               ELSE fnIn
    /\ IF ok /\ fnOut.req.solved
       THEN fnOut' = [fnOut EXCEPT !.held["wordle"] = fnOut.req.exp,
                                   !.had["wordle"] = TRUE,
                                   !.req = NoRequest]
       ELSE fnOut' = [fnOut EXCEPT !.req = NoRequest]
    /\ UNCHANGED progVars

\* POST /auth/verify_security_questions with a wordle_token.
GetSecurityToken(wordle_token, right) ==
    /\ IF ~JwtSecretRaises /\ ValidateAccessToken(wordle_token, "wordle") /\ right
       THEN Issue("security", CreateAccessToken("security").exp)
       ELSE UNCHANGED fnOut
    /\ UNCHANGED <<progVars, fnPc, fnIn>>

\* GET /players/security_token of routers/players_tracked.py, the route of
\* the same name that no token is asked on: the three answers are right or
\* not.  Its token is made by the same create_access_token.
GetSecurityTokenPlayers(right) ==
    /\ IF right /\ ~JwtSecretRaises
       THEN Issue("security", CreateAccessToken("security").exp)
       ELSE UNCHANGED fnOut
    /\ UNCHANGED <<progVars, fnPc, fnIn>>

\* POST /auth/token with a security_token.
GetAuthToken(security_token) ==
    /\ IF ~JwtSecretRaises /\ ValidateAccessToken(security_token, "security")
       THEN Issue("auth", CreateAccessToken("auth").exp)
       ELSE UNCHANGED fnOut
    /\ UNCHANGED <<progVars, fnPc, fnIn>>

\* TickMinutes pass.
ClockTick ==
    /\ fnIn.now < MaxNow
    /\ fnIn' = [fnIn EXCEPT !.now = @ + 1]
    /\ UNCHANGED <<progVars, fnPc, fnOut>>

InitAuth ==
    /\ InitProgram
    /\ fnPc = "idle"
    /\ fnIn \in [now : {0}, zone : Zones, secret : BOOLEAN,
                 sessions : {[i \in WordleIds |-> NoSession]}]
    /\ fnOut = [held |-> NoTokens, had |-> [t \in TokenTypes |-> FALSE], req |-> NoRequest]

\* The routes of routers/auth.py, the clock and the cache.
AuthRouter ==
    \/ \E found, right \in BOOLEAN : GetCaptchaToken(found, right)
    \/ \E wordle_id \in WordleIds, ok \in BOOLEAN : GetWordleId(wordle_id, ok)
    \/ \E wordle_id \in WordleIds : SessionExpire(wordle_id)
    \/ \E wordle_id \in WordleIds : SessionForeign(wordle_id)
    \/ \E token \in Presentable, wordle_id \in WordleIds :
          GetWordleTokenValidate(token, wordle_id)
    \/ \E read \in {"session", "none", "raised"}, guess \in Guesses :
          GetWordleTokenSession(read, guess)
    \/ \E ok \in BOOLEAN : GetWordleTokenSet(ok)
    \/ \E token \in Presentable, right \in BOOLEAN : GetSecurityToken(token, right)
    \/ \E token \in Presentable : GetAuthToken(token)
    \/ ClockTick

\* The routers of src/ on one application, with one JWT_SECRET.
NextAuth ==
    \/ AuthRouter
    \/ \E right \in BOOLEAN : GetSecurityTokenPlayers(right)

SpecAuth == InitAuth /\ [][NextAuth]_vars

\* routers/auth.py alone.
SpecAuthRouter == InitAuth /\ [][AuthRouter]_vars

\* ------------------------------------------------------------------ claims
\* C1: a task whose every answer was a transient error makes at most
\* MAX_RETRIES retries, MAX_RETRIES + 1 requests in all, in its cycle.
C1_RetriesBounded ==
    \A p \in Tags : allTransient[p] => dispatched[p] <= MAX_RETRIES + 1

\* C2: a task whose request was answered with the maintenance sentinel has
\* raised ClashRoyaleMaintenanceError.
C2_SentinelRaises ==
    \A p \in Tags :
        sentinel[p] => tpc[p] = "raised" /\ tres[p] = "ClashRoyaleMaintenanceError"

\* C3: in a cycle in which a task raised the maintenance error, main() is
\* never inside cache_cards and never at the call of increment_version.
C3_MaintenanceSkipsRefresh ==
    maint => mainPc \notin {"cache_fetch", "cache_key", "cache_set", "incr"}

\* C4 as stated: after a task raised the maintenance error no request is
\* dispatched in that cycle.
C4_NoDispatchAfterMaintenance == lateDispatch = 0

\* C4 as the code has it: once the group has run its abort every task of the
\* cycle is finished or cancelled (so none dispatches any more), at most one
\* request went out between the raise and the abort however many siblings
\* ran a step in between, a cycle with a maintenance error always comes to
\* the abort, and run_players_cycle does not raise.
C4_GroupCancelled ==
    /\ aborted => \A p \in players : tpc[p] \in Terminal
    /\ (maint /\ mainPc = "group" /\ ~abortPending) => aborted
    /\ \A p \in Tags : tpc[p] = "cancelled" => aborted
    /\ lateDispatch <= 1
    /\ mainPc # "group_raised"

\* The group has aborted after two siblings of the failed task ran their
\* scheduled step, both into the limiter: one sent a request, the other was
\* held back, and both are cancelled.
C4_Witness ==
    /\ aborted
    /\ gapEntries = 2
    /\ lateDispatch = 1
    /\ \E p \in players : /\ tpc[p] = "raised"
                           /\ \A q \in players \ {p} : tpc[q] = "cancelled"

\* C5: two successive returns of ApiRateLimiter.__aenter__ are at least
\* `interval` apart.
C5_MinimumSpacing == acqGap >= Interval

C5_Witness ==
    /\ sinceAcq = 0
    /\ acqGap = Interval
    /\ \E p, q \in players : p # q /\ tpc[p] = "http" /\ tpc[q] = "http"

\* C6: the entry cache_cards wrote under the key of version + 1 is, after the
\* one increment and until it expires, what a read of the key built for the
\* current version returns: the value written ahead, never a miss.
C6_AheadValueIsCurrent ==
    curLive =>
        GetRedisJson("ok", cache[BuildRedisKey(version, "allCards", FALSE)])
            = [exc |-> "none", value |-> version]

\* The catalogue written ahead in the first cycle is the current entry while
\* main() sleeps after the increment.
C6_Witness ==
    /\ curLive /\ mainPc = "sleep"
    /\ version = 2
    /\ cache[BuildRedisKey(2, "allCards", FALSE)] = 2
    /\ cache[BuildRedisKey(1, "allCards", FALSE)] = NoEntry

\* C7: a hit returns an entry written under the version that was current when
\* the request built its key, never one written under an earlier version;
\* and the increment of the version leaves every entry of the cache in place.
C7_NoStaleRead ==
    /\ [](rpc = "done" /\ resp = "cached" => rhit = rver)
    /\ [][version' # version => cache' = cache]_vars

\* C8: a request whose cache read failed ends with the recomputed value.
C8_ReadFailureIsMiss == (rpc = "done" /\ readFailed) => resp = "computed"

\* C9: main() never leaves its loop.
C9_MainLoopRuns == mainPc \notin {"dead", "group_raised"}

\* C10: only the maintenance error makes the group abort: a task that failed
\* otherwise has returned, the group collected no other exception, and no
\* task is cancelled in a cycle without a maintenance error.
C10_FailureStaysLocal ==
    /\ (abortPending \/ aborted) => maint
    /\ groupErrors \subseteq {"ClashRoyaleMaintenanceError"}
    /\ \A p \in Tags : tpc[p] = "cancelled" => maint
    /\ \A p \in Tags :
          tres[p] \in {"unusable", "http_no_retry", "http_error", "unknown_error"}
              => tpc[p] = "returned"

C10_Witness ==
    /\ ~maint
    /\ \E p, q \in players :
          /\ tres[p] = "unknown_error"
          /\ tres[q] = "stored"

\* C11: in a cycle with players and without a maintenance error main() steps
\* from the load to the task group, from there to the count and cache_cards,
\* then to the increment, then to the sleep; the version changes only at the
\* increment, when every task of the cycle is over, cache_cards was called
\* and the version was not yet incremented in the cycle; and a cycle that
\* has come to its sleep has incremented the version exactly once.
C11_CycleOrder ==
    /\ [][(mainPc' # mainPc /\ ~maint') =>
             <<mainPc, mainPc'>> \in
                 {<<"load", "group">>, <<"load", "idle_sleep">>, <<"idle_sleep", "load">>,
                  <<"group", "count">>, <<"count", "cache_fetch">>,
                  <<"cache_fetch", "cache_key">>, <<"cache_key", "cache_set">>,
                  <<"cache_fetch", "incr">>, <<"cache_key", "incr">>,
                  <<"cache_set", "incr">>, <<"incr", "sleep">>, <<"sleep", "load">>,
                  <<"count", "dead">>, <<"incr", "dead">>}]_vars
    /\ [][version' # version =>
             /\ mainPc = "incr" /\ mainPc' = "sleep"
             /\ \A p \in Tags : tpc[p] = "none"
             /\ cardsTried
             /\ incrs = 0
             /\ version' = version + 1]_vars
    /\ [](mainPc = "sleep" => incrs = 1 /\ cardsTried)

C11_Witness ==
    /\ mainPc = "sleep" /\ ~maint /\ incrs = 1 /\ cardsTried
    /\ version > 1
    /\ players # {}

\* C12: the result of a battle is Victory, Defeat or Draw as the greatest
\* crown count among the participants of the team is greater than, less than
\* or equal to the greatest crown count among the opponent's participants.
C12_ResultByMaxCrowns ==
    LET Greatest(side) ==
            CHOOSE c \in 0..MaxCrowns :
                /\ \E i \in DOMAIN side : CrownsOf(side[i]) = c
                /\ \A i \in DOMAIN side : CrownsOf(side[i]) <= c
    IN  fnPc = "done" =>
            fnOut = IF Greatest(fnIn.team) > Greatest(fnIn.opponent) THEN "Victory"
                    ELSE IF Greatest(fnIn.team) < Greatest(fnIn.opponent) THEN "Defeat"
                    ELSE "Draw"

\* C13: two filtered records are in the same deck group exactly when their
\* reference decks hold the same multiset of (id, evolutionLevel) pairs, an
\* absent evolutionLevel counting as 0, whatever the order, the levels and
\* the names of the cards.
C13_GroupByIdAndEvolution ==
    LET Evo(c) == IF c.evolutionLevel = -1 THEN 0 ELSE c.evolutionLevel
        Count(d, id, evo) ==
            Cardinality({i \in DOMAIN d : d[i].id = id /\ Evo(d[i]) = evo})
        SameSignature(a, b) ==
            \A id \in 1..MaxCardId, evo \in 0..MaxEvolution :
                Count(a, id, evo) = Count(b, id, evo)
    IN  fnPc = "done" => (fnOut <=> SameSignature(fnIn.a, fnIn.b))

\* C14: a match that lacks battleTime, team, opponent, arena or gameMode, has
\* an empty team or opponent list, or has a participant without a cards
\* field is never handed to storage, neither itself nor as the records made
\* of it, at whatever position of the fetched log it stands; and the task
\* that fetched it returns.
C14_NoInvalidMatchInserted ==
    LET Invalid(m) ==
            \/ ~m.battleTime.has \/ ~m.team.has \/ ~m.opponent.has
            \/ ~m.arena \/ ~m.gameMode
            \/ Len(m.team.list) = 0 \/ Len(m.opponent.list) = 0
            \/ \E i \in DOMAIN m.team.list : m.team.list[i].cards = -1
            \/ \E i \in DOMAIN m.opponent.list : m.opponent.list[i].cards = -1
    IN  fnPc = "done" =>
            /\ \A k \in DOMAIN fnOut.inserted :
                  ~Invalid(fnIn[fnOut.inserted[k].origin])
            /\ fnOut.res \in {"no_logs", "unusable", "unknown_error", "stored"}

\* C15: a complete duel is cleaned and stored; and when the log is stored, a
\* match at position pos whose two duellists (the first participant of each
\* side) carry N rounds each has become exactly N records, at the positions
\* pos .. pos + N - 1 of what is stored, the i-th of them with the battleTime
\* of the duel plus i - 1 seconds, with the cards, crowns, tower hit points
\* and leaked elixir of round i on both duellists, and without their rounds.
C15_DuelBecomesRounds ==
    LET OfRound(player, i) ==
            /\ player.cards = i /\ player.crowns = i
            /\ player.kingTowerHitPoints = i /\ player.princessTowersHitPoints = i
            /\ player.elixirLeaked = i /\ player.rounds = 0
    IN  fnPc = "done" =>
            \A pos \in DOMAIN fnIn :
                LET m == fnIn[pos]
                    N == m.team.list[1].rounds
                    base == m.battleTime.mm * 60 + m.battleTime.ss
                IN  (IsDuel(m) /\ m.opponent.has /\ Len(m.opponent.list) > 0
                        /\ m.opponent.list[1].rounds = N) =>
                      /\ ContentOk(m) => fnOut.res = "stored"
                      /\ fnOut.res = "stored" =>
                            /\ Len(fnOut.inserted) = Len(fnIn) - 1 + N
                            /\ {k \in DOMAIN fnOut.inserted : fnOut.inserted[k].origin = pos}
                                   = pos..(pos + N - 1)
                            /\ \A i \in 1..N :
                                  LET r == fnOut.inserted[pos + i - 1]
                                  IN  /\ r.battleTime = base + (i - 1)
                                      /\ OfRound(r.team[1], i)
                                      /\ OfRound(r.opponent[1], i)

C15_Witness ==
    /\ fnPc = "done" /\ fnOut.res = "stored"
    /\ Len(fnIn) = 2 /\ IsDuel(fnIn[2])
    /\ Len(fnIn[2].opponent.list) > 0
    /\ fnIn[2].team.list[1].rounds = 2 /\ fnIn[2].opponent.list[1].rounds = 2
    /\ fnIn[2].battleTime.ss = 59
    /\ Len(fnOut.inserted) = 3
    /\ fnOut.inserted[2].battleTime = 59 /\ fnOut.inserted[3].battleTime = 60

\* C16: when insert_battles is called with a connection and a non-empty
\* batch none of whose records the server rejects for another reason, every
\* record stored before is stored unchanged afterwards, every record of the
\* batch whose key was not stored and is its only one in the batch is
\* stored, a new key shared by several records of the batch holds one of
\* them, no other key appears, and insert_battles does not raise; a batch
\* whose records are all stored already leaves the collection as it was.
C16_InsertOrIgnore ==
    [][(/\ fnPc = "call" /\ fnPc' = "done"
        /\ fnIn.connected /\ Len(fnIn.batch) > 0
        /\ \A i \in DOMAIN fnIn.batch : ~fnIn.batch[i].rejected) =>
          LET before == fnOut.store
              after == fnOut'.store
              batch == fnIn.batch
              Sharing(k) == {i \in DOMAIN batch : batch[i].key = k}
          IN  /\ ~fnOut'.raised
              /\ \A k \in BattleKeys : before[k] # NoRecord => after[k] = before[k]
              /\ \A i \in DOMAIN batch :
                    (before[batch[i].key] = NoRecord /\ Sharing(batch[i].key) = {i})
                        => after[batch[i].key] = batch[i].gameResult
              /\ \A k \in BattleKeys :
                    (before[k] = NoRecord /\ Sharing(k) # {})
                        => \E i \in Sharing(k) : after[k] = batch[i].gameResult
              /\ \A k \in BattleKeys :
                    (before[k] = NoRecord /\ Sharing(k) = {}) => after[k] = NoRecord
              /\ (\A i \in DOMAIN batch : before[batch[i].key] = batch[i].gameResult)
                    => after = before]_vars

C16_Witness ==
    /\ fnPc = "done" /\ ~fnOut.raised
    /\ fnIn.connected /\ Len(fnIn.batch) = 2
    /\ ~fnIn.batch[1].rejected /\ ~fnIn.batch[2].rejected
    /\ fnIn.batch[1].key # fnIn.batch[2].key
    /\ fnOut.store[fnIn.batch[1].key] # fnIn.batch[1].gameResult
    /\ fnOut.store[fnIn.batch[2].key] = fnIn.batch[2].gameResult

\* C17: the helper reads under the key ahead first and under the current key
\* second; and a helper that ran while nothing else touched the cache, did
\* not raise, and ran when the text written last, under a key that was one
\* version ahead at the write, was still in the cache and the version had
\* been incremented not at all or once since that write, returns the text
\* read under the key of that write.
C17_AheadThenCurrent ==
    /\ [][(fnPc = "get_first" /\ fnPc' = "get_second") =>
             /\ fnOut.key_ahead \notin fnIn.entries
             /\ fnOut'.found = NoKey]_vars
    /\ [][(fnPc = "get_first" /\ fnPc' = "done" /\ ~fnOut'.raised) =>
             fnOut'.found = fnOut.key_ahead]_vars
    /\ [][(fnPc = "get_second" /\ fnPc' = "done" /\ fnOut'.found # NoKey) =>
             fnOut'.found = fnOut.key]_vars
    /\ []((/\ fnPc = "done" /\ fnOut.calm /\ ~fnOut.raised
            /\ fnIn.last \in fnIn.entries /\ fnIn.ahead /\ fnIn.bumps <= 1)
               => fnOut.found = fnIn.last)

\* One increment after the text was written ahead, the helper missed under
\* the key ahead and returned the text read under the current key.
C17_Witness ==
    /\ fnPc = "done" /\ fnOut.calm /\ ~fnOut.raised
    /\ fnIn.last \in fnIn.entries /\ fnIn.ahead /\ fnIn.bumps = 1
    /\ fnOut.key_ahead \notin fnIn.entries
    /\ fnOut.found = fnOut.key /\ fnOut.key = fnIn.last

\* C18: in a request for the deck statistics the key is built once; a read
\* that returns an entry ends the request with that entry, with neither a
\* query of the storage nor a write to the cache; the storage is queried
\* only after a read that missed; the cache is written only after the query
\* returned; and a computed value is returned only after it was written to
\* the cache under the key that was looked up.
C18_ReadThrough ==
    /\ [][(rres = "playerDecks" /\ rpc = "get" /\ rpc' # "get" /\ rhit' # NoEntry) =>
             /\ rpc' = "done" /\ resp' = "cached"
             /\ rhit' = cache[rkey] /\ cache' = cache]_vars
    /\ [][(rres = "playerDecks" /\ rpc # "compute" /\ rpc' = "compute") =>
             /\ rpc = "get" /\ cache[rkey] = NoEntry /\ ~readFailed']_vars
    /\ [][(rres = "playerDecks" /\ rpc # "set" /\ rpc' = "set") => rpc = "compute"]_vars
    /\ [][(rres = "playerDecks" /\ rpc' # rpc /\ cache' # cache) => rpc = "set"]_vars
    /\ [][(rres = "playerDecks" /\ resp # "computed" /\ resp' = "computed") =>
             /\ rpc = "set" /\ rpc' = "done"
             /\ rkey' = rkey /\ cache'[rkey] = rver
             /\ \A k \in CacheKeys \ {rkey} : cache'[k] = cache[k]]_vars
    /\ [][(rres = "playerDecks" /\ rkey' # rkey) => rpc \in {"key", "done"}]_vars

\* A request missed, computed, and wrote back under the key it had looked
\* up, although the version was incremented in between.
C18_Witness ==
    /\ rres = "playerDecks" /\ rpc = "done" /\ resp = "computed"
    /\ rhit = NoEntry
    /\ rver # version
    /\ cache[rkey] = rver
    /\ cache[BuildRedisKey(version, "playerDecks", FALSE)] = NoEntry

\* C19: a task is created only when main() has loaded the players, and
\* then for every tag that had active = true in the collection it read and
\* for no other; no task is created again within the cycle; and while the
\* cycle's group runs, a tag has a task exactly when it was active at the
\* load.
C19_OneTaskPerActiveTag ==
    /\ [][\A t \in Tags :
             (tpc[t] # "start" /\ tpc'[t] = "start") =>
                 /\ mainPc = "load" /\ mainPc' = "group"
                 /\ tpc[t] = "none"
                 /\ \A u \in Tags : tpc'[u] = "start" <=> u \in activeAtLoad']_vars
    /\ [][\A t \in Tags :
             (tpc[t] = "none" /\ tpc'[t] # "none") => tpc'[t] = "start"]_vars
    /\ [](mainPc = "group" => \A t \in Tags : tpc[t] # "none" <=> t \in activeAtLoad)

\* A cycle runs with a task for the active tag and none for a deactivated one.
C19_Witness ==
    /\ mainPc = "group"
    /\ \E t, u \in Tags :
          /\ t \in activeAtLoad /\ tpc[t] \notin {"none", "start"}
          /\ u \notin activeAtLoad /\ tpc[u] = "none"

\* C20: build_redis_key called with the same service, the same resource and
\* the pairs of the same parameter mapping in two orders returns the same
\* key both times.
C20_KeyIgnoresOrder ==
    fnPc = "done" => fnOut.a = fnOut.b

\* Three parameters in two different orders gave the same readable key.
C20_Witness ==
    /\ fnPc = "done"
    /\ Len(fnIn.a) = 3 /\ fnIn.a # fnIn.b
    /\ fnIn.a[1].k = "startDate" /\ fnIn.b[1].k = "endDate"
    /\ fnOut.a = fnOut.b /\ fnOut.a.md5 = <<>>

\* C21: under the fair scheduling, a task that waits inside the limiter's
\* __aenter__ (queued for the lock, or holding it and sleeping until the next
\* slot) eventually returns from it and sends its request.
C21_AcquireReturns ==
    \A p \in Tags : (tpc[p] \in {"lock_wait", "rl_sleep"}) ~> (tpc[p] = "http")

\* A task that queued for the lock behind a sleeping holder has been let
\* through: both tasks have sent a request, the later one a full interval
\* after the earlier.
C21_Witness ==
    \E p, q \in Tags :
        /\ p # q
        /\ tpc[p] = "http" /\ dispatched[p] = 1
        /\ dispatched[q] >= 1
        /\ waiters = <<>> /\ lockHolder = NoTask
        /\ acqGap = Interval

\* C22: every deck group of the deck query's result counts the filtered
\* records whose reference deck has the group's signature (the multiset of
\* (id, evolutionLevel) pairs) and, as wins, those of them that ended in
\* Victory, with winRate = wins/count*100; the counts add up to totalBattles,
\* the number of filtered records; the groups come by count descending, then
\* lastSeen descending.
C22_DeckGroupCounts ==
    LET Count(d, id, evo) ==
            Cardinality({i \in DOMAIN d : d[i].id = id /\ d[i].evolutionLevel = evo})
        SameSignature(a, b) ==
            \A id \in 1..MaxCardId, evo \in 0..MaxEvolution :
                Count(a, id, evo) = Count(b, id, evo)
        stored == fnIn.stored
        decks == fnOut.decks
        With(g) == {t \in DOMAIN stored : SameSignature(stored[t].deck, g.deck)}
    IN  (fnPc = "done" /\ fnIn.query = "decks") =>
            /\ \A i \in DOMAIN decks :
                  /\ decks[i].count = Cardinality(With(decks[i]))
                  /\ decks[i].wins =
                        Cardinality({t \in With(decks[i]) : stored[t].gameResult = "Victory"})
                  /\ decks[i].winRate.num * decks[i].count
                        = decks[i].wins * 100 * decks[i].winRate.den
            /\ SumOver([i \in DOMAIN decks |-> decks[i].count], DOMAIN decks)
                  = fnOut.totalBattles
            /\ fnOut.totalBattles = Cardinality(DOMAIN stored)
            /\ \A i, j \in DOMAIN decks :
                  i < j => \/ decks[i].count > decks[j].count
                           \/ /\ decks[i].count = decks[j].count
                              /\ decks[i].lastSeen >= decks[j].lastSeen

\* C23: the card query's result has one entry for every (id, name,
\* evolutionLevel) triple of the reference decks of the filtered records and no
\* other; the entry holds usage, the number of filtered records whose deck has
\* the triple, wins, those of them that ended in Victory, winRate =
\* wins/usage*100 and usageRate = usage/totalBattles*100; the entries come by
\* usage descending.
C23_CardUsage ==
    LET stored == fnIn.stored
        cards == fnOut.cards
        Triple(c) == [id |-> c.id, name |-> c.name, evolutionLevel |-> c.evolutionLevel]
        Triples(t) == {Triple(stored[t].deck[i]) : i \in DOMAIN stored[t].deck}
        With(tr) == {t \in DOMAIN stored : tr \in Triples(t)}
    IN  (fnPc = "done" /\ fnIn.query = "cards") =>
            /\ \A t \in DOMAIN stored : \A tr \in Triples(t) :
                  Cardinality({i \in DOMAIN cards : cards[i].card = tr}) = 1
            /\ \A i \in DOMAIN cards :
                  /\ With(cards[i].card) # {}
                  /\ cards[i].usage = Cardinality(With(cards[i].card))
                  /\ cards[i].wins =
                        Cardinality({t \in With(cards[i].card) :
                                        stored[t].gameResult = "Victory"})
                  /\ cards[i].winRate.num * cards[i].usage
                        = cards[i].wins * 100 * cards[i].winRate.den
                  /\ "usageRate" \in DOMAIN cards[i]
                  /\ cards[i].usageRate.num * fnOut.totalBattles
                        = cards[i].usage * 100 * cards[i].usageRate.den
            /\ \A i, j \in DOMAIN cards : i < j => cards[i].usage >= cards[j].usage

\* C24: the daily rollup has one entry for every calendar day of the caller's
\* timezone on which a filtered record falls; the entry's battles is the
\* number of that day's records and equals victories + defeats + draws, its
\* crownsFor and crownsAgainst are the sums over that day's records of the
\* greatest crown count among the team and among the opponents; the entries
\* come by day ascending and their battles add up to totalBattles.
C24_DailyRollup ==
    LET stored == fnIn.stored
        daily == fnOut.daily
        LocalDay(t) == (t + fnIn.timezone) \div DayLen
        On(day) == {t \in DOMAIN stored : LocalDay(t) = day}
        Ended(day, result) == Cardinality({t \in On(day) : stored[t].gameResult = result})
        Greatest(side) ==
            CHOOSE c \in 0..MaxCrowns :
                /\ \E i \in DOMAIN side : CrownsOf(side[i]) = c
                /\ \A i \in DOMAIN side : CrownsOf(side[i]) <= c
    IN  (fnPc = "done" /\ fnIn.query = "daily") =>
            /\ \A t \in DOMAIN stored :
                  Cardinality({i \in DOMAIN daily : daily[i].date = LocalDay(t)}) = 1
            /\ \A i \in DOMAIN daily :
                  LET day == daily[i].date
                  IN  /\ On(day) # {}
                      /\ daily[i].battles = Cardinality(On(day))
                      /\ daily[i].victories = Ended(day, "Victory")
                      /\ daily[i].defeats = Ended(day, "Defeat")
                      /\ daily[i].draws = Ended(day, "Draw")
                      /\ daily[i].battles
                            = daily[i].victories + daily[i].defeats + daily[i].draws
                      /\ daily[i].crownsFor =
                            SumOver([t \in On(day) |-> Greatest(stored[t].team)], On(day))
                      /\ daily[i].crownsAgainst =
                            SumOver([t \in On(day) |-> Greatest(stored[t].opponent)], On(day))
            /\ \A i, j \in DOMAIN daily : i < j => daily[i].date < daily[j].date
            /\ SumOver([i \in DOMAIN daily |-> daily[i].battles], DOMAIN daily)
                  = fnOut.totalBattles
            /\ fnOut.totalBattles = Cardinality(DOMAIN stored)

\* A rollup in a timezone off UTC with two days, one of them with two records,
\* among them a record with two participants on the team.
C24_Witness ==
    /\ fnPc = "done" /\ fnIn.query = "daily"
    /\ fnIn.timezone # 0
    /\ Len(fnOut.daily) = 2
    /\ fnOut.daily[1].battles = 2
    /\ \E t \in DOMAIN fnIn.stored :
          /\ Len(fnIn.stored[t].team) = 2
          /\ (t + fnIn.timezone) \div DayLen = fnOut.daily[1].date
          /\ t \div DayLen # fnOut.daily[1].date

\* C25: a query that passed the check of its range includes a stored record
\* exactly when the record is the player's, its battleTime is at or after the
\* local midnight of startDate and before the local midnight of the day after
\* endDate in the given timezone, and, with game modes given, its gameMode is
\* one of them.
C25_IncludedExactlyInWindow ==
    LET doc == fnIn.doc
        params == fnIn.params
        LocalMidnight(day) ==
            CHOOSE t \in ((-MaxOffset) - DayLen)..((MaxDate + 2) * DayLen + MaxOffset) :
                t + params.timezone = day * DayLen
        startInstant == LocalMidnight(params.start_date)
        endInstant == LocalMidnight(params.end_date + 1)
    IN  (fnPc = "done" /\ ~fnOut.raised) =>
            (fnOut.included <=>
                /\ doc.referencePlayerTag = params.player_tag
                /\ startInstant <= doc.battleTime /\ doc.battleTime < endInstant
                /\ params.game_modes # {} => doc.gameMode \in params.game_modes)

\* A record of the player's on the last local day of the window, which is the
\* day after endDate in UTC, was included by a query with game modes.
C25_Witness ==
    /\ fnPc = "done" /\ fnOut.included
    /\ fnIn.params.timezone < 0
    /\ fnIn.params.game_modes = {fnIn.doc.gameMode}
    /\ fnIn.doc.battleTime >= (fnIn.params.end_date + 1) * DayLen

\* C26: with no filtered record, the deck, the card and the daily query each
\* return a document with totalBattles = 0 and an empty decks, cards or daily
\* list.
C26_EmptyResult ==
    (fnPc = "done" /\ DOMAIN fnIn.stored = {}) =>
        /\ fnOut.totalBattles = 0
        /\ fnIn.query = "decks" => fnOut.decks = <<>>
        /\ fnIn.query = "cards" => fnOut.cards = <<>>
        /\ fnIn.query = "daily" => fnOut.daily = <<>>

\* The deck query returned for a player without a filtered record.
C26_Witness ==
    /\ fnPc = "done" /\ fnIn.query = "decks"
    /\ fnIn.stored = <<>>
    /\ DOMAIN fnOut = {"decks", "totalBattles"}

\* C27: two reference decks that hold the same cards in different orders get
\* the same canonical deck, and it has the cards by evolutionLevel descending,
\* then id ascending.
C27_PermutationInvariant ==
    LET a == fnIn.a
        b == fnIn.b
        Permuted ==
            \E f \in [DOMAIN a -> DOMAIN a] :
                /\ \A i, j \in DOMAIN a : i # j => f[i] # f[j]
                /\ \A i \in DOMAIN a : b[i] = a[f[i]]
        canon == GroupId(a)
    IN  (fnPc = "done" /\ Permuted) =>
            /\ fnOut
            /\ GroupId(a) = GroupId(b)
            /\ \A i, j \in DOMAIN canon :
                  i < j => \/ canon[i].evolutionLevel > canon[j].evolutionLevel
                           \/ /\ canon[i].evolutionLevel = canon[j].evolutionLevel
                              /\ canon[i].id < canon[j].id

\* Two decks with the same cards in opposite orders, the evolved card last in
\* the first of them, met in the $group and fell into one group.
C27_Witness ==
    /\ fnPc = "done" /\ fnOut
    /\ fnIn.a # fnIn.b
    /\ fnIn.b = [i \in 1..DeckSize |-> fnIn.a[DeckSize + 1 - i]]
    /\ fnIn.a[DeckSize].evolutionLevel > 0
    /\ fnIn.a[1].evolutionLevel = 0

\* C28: the step in which a task's request is answered with an HTTP 403 or
\* 404 ends the task: it returns, without a back-off or another request,
\* without an insert and without a name update, and leaves every sibling
\* task, the task group and the limiter as they were; and the task stays
\* returned for the rest of its cycle.
C28_RefusedEndsTask ==
    /\ [](\A p \in Tags : refused[p] => tpc[p] = "returned")
    /\ [][\A p \in Tags :
             (tpc[p] = "http" /\ tpc'[p] # "http" /\ refused'[p]) =>
                 /\ tpc'[p] = "returned"
                 /\ dispatched' = dispatched
                 /\ timer' = timer /\ attempt' = attempt
                 /\ battles' = battles /\ names' = names
                 /\ \A q \in Tags \ {p} : tpc'[q] = tpc[q] /\ tres'[q] = tres[q]
                 /\ groupErrors' = groupErrors /\ abortPending' = abortPending
                 /\ limiterVars' = limiterVars]_vars

\* A task ended on a 403 or 404 after its one request, with nothing stored
\* for its player, while its sibling went on to store its battles and name.
C28_Witness ==
    \E p, q \in Tags :
        /\ p # q
        /\ refused[p] /\ tpc[p] = "returned" /\ dispatched[p] = 1
        /\ p \notin battles /\ p \notin names
        /\ tpc[q] = "returned" /\ tres[q] = "stored"
        /\ q \in battles /\ q \in names

\* C29: in every record produced of a match, every deck card and every
\* support card of every participant has the level of the fetched card plus
\* the offset of its rarity (common 0, rare 2, epic 5, legendary 8, champion
\* 10), added once; in the record of round r of a duel the deck of a duellist
\* is the deck of the duellist's round r.
C29_LevelsAdjustedOnce ==
    LET Offset(rarity) ==
            CASE rarity = "common" -> 0
              [] rarity = "rare" -> 2
              [] rarity = "epic" -> 5
              [] rarity = "legendary" -> 8
              [] rarity = "champion" -> 10
        Adjusted(list, raw) ==
            /\ Len(list) = Len(raw)
            /\ \A i \in DOMAIN raw : list[i].level = raw[i].level + Offset(raw[i].rarity)
        duel == fnIn.team[1].rounds # <<>>
        Deck(side, k, r) ==
            IF duel /\ k = 1 THEN fnIn[side][k].rounds[r] ELSE fnIn[side][k].cards
    IN  (fnPc = "done" /\ ~fnOut.raised) =>
            \A r \in DOMAIN fnOut.records : \A side \in {"team", "opponent"} :
                /\ DOMAIN fnOut.records[r][side] = DOMAIN fnIn[side]
                /\ \A k \in DOMAIN fnIn[side] :
                      /\ Adjusted(fnOut.records[r][side][k].cards, Deck(side, k, r))
                      /\ Adjusted(fnOut.records[r][side][k].supportCards,
                                  fnIn[side][k].supportCards.list)

\* A duel of two rounds became two records; the duellist's champion of the
\* second round and the rare support card carry their offsets in the second
\* record.
C29_Witness ==
    /\ fnPc = "done" /\ ~fnOut.raised
    /\ Len(fnOut.records) = 2
    /\ fnIn.team[1].rounds[2][1] = [level |-> 2, rarity |-> "champion"]
    /\ fnOut.records[2].team[1].cards[1].level = 12
    /\ fnIn.team[1].supportCards.list = <<[level |-> 1, rarity |-> "rare"]>>
    /\ fnOut.records[2].team[1].supportCards[1].level = 3
    /\ fnOut.records[1].team[1].supportCards[1].level = 3

\* C30: for a base TTL above 0 the entry is written with a TTL that is at
\* least min_ttl and, when the jittered value was not raised to min_ttl, lies
\* between round(base * (1 - pct)) and round(base * (1 + pct)), the values
\* of these expressions in doubles: the integer nearest to the product (the
\* even one of two equally near), told by comparing the product with the
\* halves below and above it; a base TTL of 0 or below raises, and nothing
\* is written.
C30_JitterWithinBounds ==
    LET AtMost(x, y) ==
            \/ x.exp < y.exp
            \/ /\ x.exp = y.exp
               /\ \A i \in 1..Precision :
                      x.bits[i] > y.bits[i] => \E j \in 1..(i - 1) : x.bits[j] < y.bits[j]
        Halves(n) == FloatDivide(n, 2)
        Nearest(x) ==
            CHOOSE q \in ((8 * fnIn.ttl) \div 10 + 1)..((12 * fnIn.ttl) \div 10 + 1) :
                /\ AtMost(Halves(2 * q - 1), x) /\ AtMost(x, Halves(2 * q + 1))
                /\ x \in {Halves(2 * q - 1), Halves(2 * q + 1)} => q % 2 = 0
        low == Nearest(FloatTimes(FloatDivide(100 - Pct, 100), fnIn.ttl))
        high == Nearest(FloatTimes(FloatDivide(100 + Pct, 100), fnIn.ttl))
    IN  fnPc = "done" =>
            IF fnIn.ttl > 0
            THEN /\ ~fnOut.raised /\ fnOut.setex
                 /\ fnOut.ttl >= MinTtl
                 /\ fnOut.jittered >= MinTtl =>
                       /\ fnOut.ttl = fnOut.jittered
                       /\ low <= fnOut.ttl /\ fnOut.ttl <= high
            ELSE fnOut.raised /\ ~fnOut.setex

\* A base TTL whose product with the least factor lies halfway between two
\* integers was written with the even one, above min_ttl.
C30_Witness ==
    /\ fnPc = "done" /\ ~fnOut.raised
    /\ fnIn.f = (100 - Pct) * Grain
    /\ (2 * fnIn.ttl * fnIn.f) % (100 * Grain) = 0
    /\ (fnIn.ttl * fnIn.f) % (100 * Grain) # 0
    /\ fnOut.ttl > MinTtl
    /\ fnOut.ttl % 2 = 0
    /\ fnOut.ttl * 100 * Grain > fnIn.ttl * fnIn.f

\* C31: the sleep at the end of a cycle that ran its players is
\* REQUEST_CYCLE_DURATION minus the elapsed time of the cycle when that is
\* above 0 and 0 otherwise; it is never below 0.
C31_SleepNeverNegative ==
    fnPc = "done" =>
        /\ fnOut >= 0
        /\ REQUEST_CYCLE_DURATION - fnIn > 0 => fnOut = REQUEST_CYCLE_DURATION - fnIn
        /\ REQUEST_CYCLE_DURATION - fnIn <= 0 => fnOut = 0

\* A cycle that overran its target goes on without a sleep.
C31_Witness ==
    /\ fnPc = "done"
    /\ fnIn > REQUEST_CYCLE_DURATION
    /\ fnOut = 0

\* C32: the wait a task starts before its k-th retry (k = 0, 1, 2, ...; the
\* task has sent k + 1 requests by then) is BASE_BACKOFF * 2^k.
C32_BackoffDoubles ==
    [][\A p \in Tags :
          (tpc[p] = "http" /\ tpc'[p] = "backoff" /\ dispatched[p] < MaxFetches)
              => timer'[p] = BASE_BACKOFF * Pow2(dispatched[p] - 1)]_vars

\* C33: a lookup that did not raise, and during which nothing but increments
\* of the version touched the cache, returns the text written last as long
\* as that text is in the cache, however often the version was incremented
\* since the write.
C33_RetrievableForTtl ==
    (/\ fnPc = "done" /\ ~fnOut.raised /\ fnOut.quiet
     /\ fnIn.last \in fnIn.entries)
        => fnOut.found = fnIn.last

\* C34: a lookup that did not raise returns the text written last, which was
\* written ahead and is in the cache, when the version was incremented at
\* most once since the write, wherever that increment fell between the
\* steps of the lookup.
C34_FoundUnderEveryInterleaving ==
    (/\ fnPc = "done" /\ ~fnOut.raised /\ fnOut.quiet
     /\ fnIn.last \in fnIn.entries /\ fnIn.ahead /\ fnIn.bumps <= 1)
        => fnOut.found = fnIn.last

\* C35: a fetched log that process_player's two validations accept is cleaned
\* without raising: the task ends with the log stored, and every complete
\* ordinary match of the log is among the records handed to insert_battles.
C35_AcceptedLogIsCleaned ==
    (/\ fnPc = "done" /\ Len(fnIn) > 0
     /\ ValidBattleLogStructure(fnIn) /\ ValidBattleLogContent(fnIn))
        => /\ fnOut.res = "stored"
           /\ \A i \in DOMAIN fnIn :
                 fnIn[i] = At(PlainMatch, i) =>
                     \E k \in DOMAIN fnOut.inserted : fnOut.inserted[k].origin = i

\* C36: main() never loads the tracked players right after a load that
\* raised: between two loads it has slept.
C36_SleepBetweenLoads ==
    [][(mainPc = "load" /\ mainPc' # "load") => ~failedLoad]_vars

\* C37: a request goes out only as the last step of an __aenter__ of the
\* limiter, first attempts and retries alike: the task held the lock or took
\* the free lock, the reserved slot was reached, the next slot is reserved
\* and the lock is released in that step.  So two successive requests of the
\* scraper are at least `interval` apart.  A task that sleeps its back-off,
\* waits for the upstream's answer or writes to the storage neither holds the
\* limiter's lock nor queues for it.
C37_EveryRequestAcquires ==
    /\ [][\A p \in Tags :
            (tpc[p] # "http" /\ tpc'[p] = "http") =>
                /\ tpc[p] \in {"start", "backoff", "lock_wait", "rl_sleep"}
                /\ IF tpc[p] = "rl_sleep" THEN lockHolder = p ELSE lockHolder = NoTask
                /\ tpc[p] = "lock_wait" => Head(waiters) = p
                /\ tpc[p] \in {"start", "backoff"} => waiters = <<>>
                /\ nextAt = 0
                /\ nextAt' = Interval
                /\ lockHolder' = NoTask
                /\ sinceAcq >= Interval]_vars
    /\ [](acqGap >= Interval)
    /\ [](\A p \in Tags :
            tpc[p] \in {"backoff", "http", "insert", "set_name"} =>
                /\ lockHolder # p
                /\ \A i \in DOMAIN waiters : waiters[i] # p)

\* A retry has just been sent, one interval after the request before it,
\* while another task sleeps its back-off.
C37_Witness ==
    /\ sinceAcq = 0
    /\ acqGap = Interval
    /\ \E p, q \in players :
          /\ p # q
          /\ tpc[p] = "http" /\ dispatched[p] >= 2
          /\ tpc[q] = "backoff" /\ timer[q] > 0

\* C38: an insert_battles that reached the server with a non-empty batch
\* raises exactly when the server reports a write error that is no duplicate
\* key error; it returns when every reported write error is a duplicate key
\* error.
C38_OnlyDuplicatesSwallowed ==
    [][(/\ fnPc = "call" /\ fnPc' = "done"
        /\ fnIn.connected /\ Len(fnIn.batch) > 0) =>
          (fnOut'.raised <=>
              WriteErrors(fnOut.store, fnIn.batch) \ {DuplicateKey} # {})]_vars

\* C39: a record that a statistics request with a non-empty list of game
\* modes counts has a gameMode of that list.
C39_CountedModeWasRequested ==
    (fnPc = "done" /\ fnOut.status = 200 /\ fnIn.game_modes # <<>> /\ fnOut.included) =>
        \E i \in DOMAIN fnIn.game_modes : fnIn.game_modes[i] = fnIn.doc.gameMode

====
